---- MODULE Spec2Model ----
(***************************************************************************)
(* A model of gdsyncpy's remote-operation layer (drive/http.py), of its    *)
(* hierarchy resolver (drive/api.py) and of its dedup and sync commands.   *)
(*                                                                         *)
(* Eight specifications share this module, each over its own group of      *)
(* variables (the other groups stay at their idle values):                 *)
(*   SpecTable    HttpErrorTable.matching as a function under test          *)
(*   SpecSeq      SequentialRequestRunner.execute driven by a plain caller *)
(*   SpecBatch    GAPIBatchRunner.execute driven by a plain caller         *)
(*   Spec         ErrorHandlingRunner.execute over either delegate         *)
(*   SpecResolve  resolve_paths / _resource_path / ResourcePath.__str__    *)
(*   SpecResolveFair  the same, the thread never held up for good          *)
(*   SpecDedup    dedup_apply, rank and compute_duplicates                 *)
(*   SpecSync     sync, resume and _sync with the checkpoint's life cycle  *)
(*                                                                         *)
(* Python strings are modelled as TLA+ strings where only equality is      *)
(* used (status codes, reasons) and as sequences of one-character strings  *)
(* where the code concatenates or joins them (resource names, paths).      *)
(* Python's None is the string "none" in a field that holds strings.       *)
(***************************************************************************)
EXTENDS Integers, Sequences, FiniteSets, TLC

VARIABLES
    \* ---- HttpErrorTable under test (SpecTable)
    tTable,      \* the table: a sequence of policies
    tError,      \* the error signature handed to matching
    tResult,     \* what matching returned
    tpc,         \* "ready" | "done"
    \* ---- a delegate RequestRunner (SequentialRequestRunner or GAPIBatchRunner)
    dKind,       \* "sequential" | "batch" | "none"
    dRequests,   \* RequestRunner.requests: the ids in the order they were added
    dCursor,     \* position of the next request the generator will run
    dOut,        \* results the generator has produced but its caller has not taken
    dpc,         \* "idle" | "running" | "exhausted" | "raised" | "closed"
    calls,       \* history: the physical batch calls issued, each a sequence of ids
    execLog,     \* history: every request execution, in order: id and outcome kind
    flaky,       \* environment: the ids whose execution may fail
    received,    \* what a plain caller of the delegate has taken, in order
    \* ---- ErrorHandlingRunner.execute (Spec)
    cfg,         \* constructor arguments: timeout, min_backoff, max_retries,
                 \* policies, delegate
    requests,    \* self.requests: ids in submission order
    pending,     \* the pending dict, as the sequence of its keys in dict order
    warnings,    \* the set of status codes already warned about
    attempts,
    backoff,
    now,         \* time.monotonic() - start, saturating at MaxClock
    pc,          \* "init" | "loop" | "pass" | "returned" | "raised"
    raised,      \* the exception execute() ended with, or NoRaise
    yielded,     \* history: ids yielded to the caller, in order
    sleeps,      \* history: the durations passed to time.sleep, in order
    errored,     \* history: the ids for which an error outcome was handled
    errCount,    \* history: number of error outcomes handled, per error signature
    printCount,  \* history: number of warnings printed, per status code
    passes,      \* history: number of passes started
    passInfo,    \* history: the pass last started: backoff before it, successes in it,
                 \* executions logged before it; and the last pass with a success
                 \* and the ids skipped so far
    \* ---- resolve_paths (SpecResolve)
    drive,       \* the remote hierarchy: id -> resource (id, name, parents)
    leaves,      \* the leaves argument: a sequence of ids
    resolved,    \* the keys of the resolved table (its values are the resources)
    rpc,         \* "idle" | "init" | "loop" | "build" | "returned" | "rendered" | "raised"
    rerror,      \* the exception resolve_paths ended with, or "none"
    paths,       \* the returned list: one ResourcePath per leaf
    rendered,    \* str() of each returned ResourcePath
    rounds,      \* history: the bulk fetches made, each the set of ids asked for
    \* ---- dedup_apply (SpecDedup)
    snapshot,    \* the snapshot: a sequence of entries (id, kind, md5, rendered path)
    dargs,       \* args: prefixes (the raw option string), dry_run
    duplicates,  \* the duplicates dict, as the sequence of its items in dict order
    prefixes,    \* the preference list after stripping and adding the slash
    group,       \* number of duplicate groups the queueing loop has been through
    queue,       \* runner.requests: the ids queued for deletion, in order
    deleted,     \* history: the ids whose delete request was sent to the remote
    ddpc,        \* "idle" | "init" | "ranking" | "done" | "aborted"
    dderror,     \* the exception dedup_apply ended with, or "none"
    \* ---- sync and resume (SpecSync)
    localFiles,  \* environment: the files under the local folder, in listing order
    exclusions,  \* environment: what --exclude-snapshot / --exclude-folder hold
    target,      \* environment: checksums of the files in the remote target folder
    sargs,       \* the command line of sync
    checkpoints, \* durable storage: checkpoint name -> its stored contents
    state,       \* the SyncState of the running command, or NoState
    mode,        \* "none" | "sync" | "resume": the command that is running
    srequests,   \* runner.requests: the queued uploads (local paths), in order
    sdone,       \* number of queued uploads the runner is through with
    uploads,     \* history: number of uploads executed, per local path
    remoteUsed,  \* history: the remote set of the last diff
    liveAtDiff,  \* history: the target folder's checksums when it was listed
    runs,        \* number of commands started
    spc,         \* "idle" | "ready" | "created" | "queued" | "stored" |
                 \* "done" | "failed" | "exited"
    serror,      \* the exception the command ended with, or "none"
    \* ---- the policy objects of the process (SpecShared)
    objects,     \* the heap: every HttpErrorPolicy object alive, by address
    mgTable,     \* the policies of multiget_gd's table, as addresses; <<>>: not running
    mpc,         \* "idle" | "copied" | "patched": where multiget_gd stands
    mlog         \* history: per runner run, who built it, the error, the action taken

tableVars    == <<tTable, tError, tResult, tpc>>
delegateVars == <<dKind, dRequests, dCursor, dOut, dpc, calls, execLog, flaky, received>>
runnerVars   == <<cfg, requests, pending, warnings, attempts, backoff, now, pc, raised,
                  yielded, sleeps, errored, errCount, printCount, passes, passInfo>>
resolverVars == <<drive, leaves, resolved, rpc, rerror, paths, rendered, rounds>>
dedupVars    == <<snapshot, dargs, duplicates, prefixes, group, queue, deleted, ddpc,
                  dderror>>
syncVars     == <<localFiles, exclusions, target, sargs, checkpoints, state, mode,
                  srequests, sdone, uploads, remoteUsed, liveAtDiff, runs, spc, serror>>
sharedVars   == <<objects, mgTable, mpc, mlog>>
commandVars  == <<dedupVars, syncVars, sharedVars>>
vars == <<tableVars, delegateVars, runnerVars, resolverVars, commandVars>>

-----------------------------------------------------------------------------
(* Bounds of the model *)

\* greatest number of policies in a table drawn for SpecTable
MaxPolicies == 2
\* greatest number of requests handed to the error-handling runner
MaxOps == 2
\* greatest number of requests handed to the sequential delegate on its own
MaxSeqOps == 3
\* greatest number of requests handed to the batch delegate on its own
MaxBatchOps == 250
\* greatest max_retries drawn
MaxRetries == 2
\* the clock saturates here; every finite timeout drawn is below it
MaxClock == 3
\* number of resources in a remote hierarchy
MaxNodes == 4
MaxEntries == 4
MaxLocal == 3
MaxRuns == 2
\* greatest number of runners built over the shared policy objects
MaxCalls == 3

-----------------------------------------------------------------------------
(* Small helpers *)

Min(a, b) == IF a < b THEN a ELSE b

Range(s) == {s[i] : i \in 1..Len(s)}

\* list(reversed(s))
Reversed(s) == [i \in 1..Len(s) |-> s[Len(s) + 1 - i]]

\* s with every occurrence of x removed, order kept (del d[x] on an ordered dict)
Without(s, x) == SelectSeq(s, LAMBDA y: y # x)

\* sequences over S with no repeated element, of length lo..hi
DistinctSeqs(S, lo, hi) ==
    {s \in UNION {[1..n -> S] : n \in lo..hi} :
        \A i, j \in 1..Len(s) : i # j => s[i] # s[j]}

-----------------------------------------------------------------------------
(* HttpErrorPolicy and HttpErrorTable *)

RETRY == 0
SKIP == 1
FAIL == 2

\* HttpErrorPolicy.__init__: codes is always a list; reasons is None or a set
HttpErrorPolicy(codes, reasons, has_reasons, print_always, action) ==
    [codes |-> codes, reasons |-> reasons, has_reasons |-> has_reasons,
     print_always |-> print_always, action |-> action]

\* the None that matching returns in place of a policy
NoPolicy == [codes |-> {}, reasons |-> {}, has_reasons |-> FALSE,
             print_always |-> FALSE, action |-> -1]

\* an HttpError as the policies see it: resp['status'] and HttpErrorPolicy.reason
HttpError(status, reason) == [status |-> status, reason |-> reason]

NoError == [status |-> "none", reason |-> "none"]

matches_status(policy, error) == error.status \in policy.codes

matches_reason(policy, error) ==
    IF ~policy.has_reasons THEN TRUE ELSE error.reason \in policy.reasons

matches(policy, error) == matches_status(policy, error) /\ matches_reason(policy, error)

\* mutant: the last matching policy wins
matching_last(table, error) ==
    LET policies == SelectSeq(table, LAMBDA policy: matches(policy, error))
    IN  [policy |-> IF Len(policies) = 0 THEN NoPolicy ELSE policies[Len(policies)],
         code |-> error.status]

\* HttpErrorTable.matching: the pair (policy or None, status)
matching(table, error) ==
    LET policies == SelectSeq(table, LAMBDA policy: matches(policy, error))
    IN  [policy |-> IF Len(policies) = 0 THEN NoPolicy ELSE policies[1],
         code |-> error.status]

\* HttpErrorTable.policy_for: index of the first policy listing the code (0: None)
policy_for(table, code) ==
    IF \E i \in 1..Len(table) : code \in table[i].codes
    THEN CHOOSE i \in 1..Len(table) :
            /\ code \in table[i].codes
            /\ \A j \in 1..(i - 1) : code \notin table[j].codes
    ELSE 0

RateLimitReasons == {"rateLimitExceeded", "userRateLimitExceeded"}

\* mutant: 403/429 retried whatever the reason
DEFAULT_POLICIES_any403 ==
    << HttpErrorPolicy({"104"}, {}, FALSE, TRUE, RETRY),
       HttpErrorPolicy({"404"}, {}, FALSE, TRUE, SKIP),
       HttpErrorPolicy({"403", "429"}, {}, FALSE, FALSE, RETRY),
       HttpErrorPolicy({"500"}, {}, FALSE, FALSE, RETRY) >>

DEFAULT_POLICIES ==
    << HttpErrorPolicy({"104"}, {}, FALSE, TRUE, RETRY),
       HttpErrorPolicy({"404"}, {}, FALSE, TRUE, SKIP),
       HttpErrorPolicy({"403", "429"}, RateLimitReasons, TRUE, FALSE, RETRY),
       HttpErrorPolicy({"500"}, {}, FALSE, FALSE, RETRY) >>

\* mutant: multiget_gd runs with the default table, whose 404 policy skips
fail_on_404_default == DEFAULT_POLICIES

\* multiget_gd's table: a deep copy of the default one whose 404 policy fails
fail_on_404 ==
    LET i == policy_for(DEFAULT_POLICIES, "404")
    IN  [DEFAULT_POLICIES EXCEPT ![i].action = FAIL]

-----------------------------------------------------------------------------
(* SpecTable: matching applied to drawn tables and errors *)

Statuses == {"104", "400", "403", "404", "429", "500"}
Reasons == {"none", "other"} \cup RateLimitReasons
Errors == {HttpError(s, r) : s \in Statuses, r \in Reasons}

\* the policies the drawn tables are made of
DrawnPolicies ==
    {HttpErrorPolicy(c, r[1], r[2], FALSE, a) :
        c \in {{"403"}, {"404"}, {"403", "404"}},
        r \in {<<{}, FALSE>>, <<{}, TRUE>>, <<{"rateLimitExceeded"}, TRUE>>},
        a \in {RETRY, SKIP}}

Tables ==
    UNION {[1..n -> DrawnPolicies] : n \in 0..MaxPolicies}
        \cup {DEFAULT_POLICIES, fail_on_404}

NoResult == [policy |-> NoPolicy, code |-> "none"]

TableIdle ==
    /\ tTable = <<>>
    /\ tError = NoError
    /\ tResult = NoResult
    /\ tpc = "idle"

\* resolver group, idle
ResolverIdle ==
    /\ drive = <<>>
    /\ leaves = <<>>
    /\ resolved = {}
    /\ rpc = "idle"
    /\ rerror = "none"
    /\ paths = <<>>
    /\ rendered = <<>>
    /\ rounds = <<>>

\* dedup group, idle
DedupIdle ==
    /\ snapshot = <<>>
    /\ dargs = [prefixes |-> <<>>, dry_run |-> FALSE]
    /\ duplicates = <<>>
    /\ prefixes = <<>>
    /\ group = 0
    /\ queue = <<>>
    /\ deleted = <<>>
    /\ ddpc = "idle"
    /\ dderror = "none"

NoArgs == [dry_run |-> FALSE, allow_duplicates |-> FALSE,
           include_pictures_only |-> FALSE, func |-> "none"]

\* no SyncState
NoState == [name |-> 0, args |-> NoArgs, snapshot |-> <<>>, local_files |-> <<>>,
            timestamp |-> 0, stored |-> FALSE]

\* sync group, idle
SyncIdle ==
    /\ localFiles = <<>>
    /\ exclusions = <<>>
    /\ target = {}
    /\ sargs = NoArgs
    /\ checkpoints = <<>>
    /\ state = NoState
    /\ mode = "none"
    /\ srequests = <<>>
    /\ sdone = 0
    /\ uploads = <<>>
    /\ remoteUsed = {}
    /\ liveAtDiff = {}
    /\ runs = 0
    /\ spc = "idle"
    /\ serror = "none"

\* policy objects group, idle
SharedIdle ==
    /\ objects = <<>>
    /\ mgTable = <<>>
    /\ mpc = "idle"
    /\ mlog = <<>>

CommandsIdle == DedupIdle /\ SyncIdle /\ SharedIdle

DelegateIdle ==
    /\ dKind = "none"
    /\ dRequests = <<>>
    /\ dCursor = 1
    /\ dOut = <<>>
    /\ dpc = "idle"
    /\ calls = <<>>
    /\ execLog = <<>>
    /\ flaky = {}
    /\ received = <<>>

NoRaise == [kind |-> "none", error |-> NoError]

RunnerIdle ==
    /\ cfg = [timeout |-> 0, min_backoff |-> 0, max_retries |-> 0,
              policies |-> <<>>, delegate |-> "none"]
    /\ requests = <<>>
    /\ pending = <<>>
    /\ warnings = {}
    /\ attempts = 0
    /\ backoff = 0
    /\ now = 0
    /\ pc = "idle"
    /\ raised = NoRaise
    /\ yielded = <<>>
    /\ sleeps = <<>>
    /\ errored = {}
    /\ errCount = <<>>
    /\ printCount = <<>>
    /\ passes = 0
    /\ passInfo = [backoff |-> 0, successes |-> 0, logged |-> 0, last |-> 0,
                   skipped |-> {}]

TableInit ==
    /\ tTable \in Tables
    /\ tError = NoError
    /\ tResult = NoResult
    /\ tpc = "ready"
    /\ DelegateIdle /\ RunnerIdle /\ ResolverIdle /\ CommandsIdle

\* a caller hands one error to table.matching
Lookup ==
    /\ tpc = "ready"
    /\ \E error \in Errors :
        /\ tError' = error
        /\ tResult' = matching(tTable, error)
    /\ tpc' = "done"
    /\ UNCHANGED <<tTable, delegateVars, runnerVars, resolverVars, commandVars>>

TableNext == Lookup

SpecTable == TableInit /\ [][TableNext]_vars

-----------------------------------------------------------------------------
(* Claims about the policy table *)

\* the positions of the policies of the table under test whose status codes
\* contain the error's status and whose reasons, if declared, contain its reason
MatchingPositions ==
    {i \in 1..Len(tTable) :
        /\ tError.status \in tTable[i].codes
        /\ (tTable[i].has_reasons => tError.reason \in tTable[i].reasons)}

\* C5: matching returns the first policy, in table order, whose status codes
\* contain the error's status and whose reason set, if declared, contains the
\* error's reason (no declared reasons: every reason matches); none when no
\* policy matches. The status is returned beside it.
C5_FirstMatchWins ==
    tpc = "done" =>
        /\ tResult.code = tError.status
        /\ IF MatchingPositions = {}
           THEN tResult.policy = NoPolicy
           ELSE \E i \in MatchingPositions :
                   /\ \A j \in MatchingPositions : i <= j
                   /\ tResult.policy = tTable[i]

\* C5 witness: two different policies match, the first declares reasons, the
\* first is returned
C5_Witness ==
    /\ tpc = "done"
    /\ Len(tTable) = 2
    /\ MatchingPositions = {1, 2}
    /\ tTable[1] # tTable[2]
    /\ tTable[1].has_reasons
    /\ tResult.policy = tTable[1]

\* C6: under the default table 104 -> Retry, 404 -> Skip, 403/429 -> Retry only
\* for the reasons rateLimitExceeded and userRateLimitExceeded, 500 -> Retry,
\* and every other signature has no policy
C6_DefaultTable ==
    (tpc = "done" /\ tTable = DEFAULT_POLICIES) =>
        IF tError.status = "104" THEN tResult.policy.action = RETRY
        ELSE IF tError.status = "404" THEN tResult.policy.action = SKIP
        ELSE IF /\ tError.status \in {"403", "429"}
                /\ tError.reason \in {"rateLimitExceeded", "userRateLimitExceeded"}
             THEN tResult.policy.action = RETRY
        ELSE IF tError.status = "500" THEN tResult.policy.action = RETRY
        ELSE tResult.policy = NoPolicy

\* C6 witness: a 429 with another reason finds no policy in the default table
C6_Witness ==
    /\ tpc = "done"
    /\ tTable = DEFAULT_POLICIES
    /\ tError = HttpError("429", "other")
    /\ tResult.policy = NoPolicy

-----------------------------------------------------------------------------
(* The delegates: SequentialRequestRunner and GAPIBatchRunner *)

GAPI_BATCH_LIMIT == 100

\* RequestResult(id, response, error)
RequestResult(id, response, error) == [id |-> id, response |-> response, error |-> error]

\* the remote errors a request execution is let to end with
RemoteErrors ==
    {HttpError("404", "none"), HttpError("500", "none"), HttpError("403", "none")}

Ok == [kind |-> "ok", error |-> NoError]
Failures == {[kind |-> "http_error", error |-> e] : e \in RemoteErrors}
\* request.execute() ending with an exception that is no HttpError (a deferred
\* upload of something that is not a file)
OtherException == [kind |-> "exception", error |-> NoError]

\* what executing request id may do: only the flaky requests can fail
Outcomes(id) == IF id \in flaky THEN {Ok} \cup Failures \cup {OtherException} ELSE {Ok}

\* the RequestResult of an execution that did not raise
ResultOf(id, outcome) ==
    RequestResult(id, IF outcome.kind = "ok" THEN "ok" ELSE "none", outcome.error)

\* time a request execution takes on the clock execute() reads; the clock is
\* left alone where no reading of it can tell: while no ErrorHandlingRunner
\* runs and under an infinite timeout
Durations == IF pc = "pass" /\ cfg.timeout <= MaxClock THEN {0, 1} ELSE {0}

\* the clock dt later; past the timeout every reading compares alike
Elapse(dt) == Min(now + dt, Min(cfg.timeout, MaxClock))

\* mutant: any failure escapes the generator
Escapes_any_failure(outcome) == outcome.kind # "ok"

\* SequentialRequestRunner.execute: only HttpError is caught
Escapes(outcome) == outcome.kind = "exception"

\* SequentialRequestRunner.execute, one turn of its loop: run the next request
\* and yield its result
SeqExecute ==
    /\ dKind = "sequential"
    /\ dpc = "running"
    /\ dOut = <<>>
    /\ dCursor <= Len(dRequests)
    /\ LET id == dRequests[dCursor] IN
       \E outcome \in Outcomes(id), dt \in Durations :
        /\ execLog' = Append(execLog, [id |-> id, outcome |-> outcome.kind])
        /\ now' = Elapse(dt)
        /\ IF Escapes(outcome)
           THEN /\ dpc' = "raised"
                /\ UNCHANGED <<dOut, dCursor>>
           ELSE /\ dOut' = <<ResultOf(id, outcome)>>
                /\ dCursor' = dCursor + 1
                /\ dpc' = dpc
    /\ UNCHANGED <<dKind, dRequests, calls, flaky, received>>
    /\ UNCHANGED <<cfg, requests, pending, warnings, attempts, backoff, pc, raised,
                   yielded, sleeps, errored, errCount, printCount, passes, passInfo>>
    /\ UNCHANGED <<tableVars, resolverVars, commandVars>>

\* mutant: a chunk one request too long
islice_one_more(s, from, n) == SubSeq(s, from, Min(from + n, Len(s)))

\* list(islice(cursor, n)) for a cursor standing at position from of s
islice(s, from, n) == SubSeq(s, from, Min(from + n - 1, Len(s)))

\* GAPIBatchRunner.execute, one turn of its loop, with _run_batch: cut the next
\* chunk, submit it as one physical call, queue the callbacks' results
BatchExecute ==
    /\ dKind = "batch"
    /\ dpc = "running"
    /\ dOut = <<>>
    /\ LET batch == islice(dRequests, dCursor, GAPI_BATCH_LIMIT) IN
        /\ batch # <<>>
        /\ calls' = Append(calls, batch)
        /\ dCursor' = dCursor + Len(batch)
        /\ \E dt \in Durations : now' = Elapse(dt)
        /\ \E o \in [Range(batch) \cap flaky -> {Ok} \cup Failures] :
            LET outcome(id) == IF id \in flaky THEN o[id] ELSE Ok IN
            /\ execLog' = execLog \o [i \in 1..Len(batch) |->
                              [id |-> batch[i], outcome |-> outcome(batch[i]).kind]]
            /\ dOut' = [i \in 1..Len(batch) |-> ResultOf(batch[i], outcome(batch[i]))]
    /\ UNCHANGED <<dKind, dRequests, dpc, flaky, received>>
    /\ UNCHANGED <<cfg, requests, pending, warnings, attempts, backoff, pc, raised,
                   yielded, sleeps, errored, errCount, printCount, passes, passInfo>>
    /\ UNCHANGED <<tableVars, resolverVars, commandVars>>

\* mutant: the generator also stops once the timeout has elapsed
DelegateExhausted_on_timeout ==
    /\ dpc = "running"
    /\ dOut = <<>>
    /\ \/ islice(dRequests, dCursor, GAPI_BATCH_LIMIT) = <<>>
       \/ (pc = "pass" /\ now >= cfg.timeout)

\* the generator has nothing left to yield
DelegateExhausted ==
    /\ dpc = "running"
    /\ dOut = <<>>
    /\ islice(dRequests, dCursor, GAPI_BATCH_LIMIT) = <<>>

\* a plain caller (for result in runner.execute()) takes the next result
Take ==
    /\ pc = "idle"
    /\ dpc = "running"
    /\ dOut # <<>>
    /\ received' = Append(received, Head(dOut))
    /\ dOut' = Tail(dOut)
    /\ UNCHANGED <<dKind, dRequests, dCursor, dpc, calls, execLog, flaky>>
    /\ UNCHANGED <<runnerVars, tableVars, resolverVars, commandVars>>

\* a plain caller's loop ends with the generator
Finish ==
    /\ pc = "idle"
    /\ DelegateExhausted
    /\ dpc' = "exhausted"
    /\ UNCHANGED <<dKind, dRequests, dCursor, dOut, calls, execLog, flaky, received>>
    /\ UNCHANGED <<runnerVars, tableVars, resolverVars, commandVars>>

\* RequestRunner.__init__ and add(): n requests with ids 1..n
Added(kind, n) ==
    /\ dKind = kind
    /\ dRequests = [i \in 1..n |-> i]
    /\ dCursor = 1
    /\ dOut = <<>>
    /\ dpc = "running"
    /\ calls = <<>>
    /\ execLog = <<>>
    /\ received = <<>>

SeqInit ==
    /\ \E n \in 0..MaxSeqOps :
        /\ Added("sequential", n)
        /\ flaky \in SUBSET (1..n)
    /\ TableIdle /\ RunnerIdle /\ ResolverIdle /\ CommandsIdle

SeqNext == SeqExecute \/ Take \/ Finish

SpecSeq == SeqInit /\ [][SeqNext]_vars

BatchInit ==
    /\ \E n \in 0..MaxBatchOps :
        /\ Added("batch", n)
        /\ flaky \in {{}, {n} \cap (1..n)}
    /\ TableIdle /\ RunnerIdle /\ ResolverIdle /\ CommandsIdle

BatchNext == BatchExecute \/ Take \/ Finish

SpecBatch == BatchInit /\ [][BatchNext]_vars

-----------------------------------------------------------------------------
(* Claims about the delegates *)

\* C7: over n queued operations the batch runner issues exactly ceil(n/100)
\* physical calls; the k-th call is the k-th consecutive slice of 100 of the
\* submission order (the last one possibly shorter, none empty), so every
\* operation belongs to exactly one chunk and chunks go out in submission order
C7_BatchChunking ==
    dKind = "batch" =>
        LET n == Len(dRequests) IN
        /\ \A k \in 1..Len(calls) :
            /\ calls[k] # <<>>
            /\ calls[k] = SubSeq(dRequests, 100 * (k - 1) + 1, Min(100 * k, n))
        /\ dpc = "exhausted" => Len(calls) = (n + 99) \div 100

\* C7 witness: 250 operations went out as calls of 100, 100 and 50
C7_Witness ==
    /\ dKind = "batch"
    /\ dpc = "exhausted"
    /\ Len(dRequests) = 250
    /\ Len(calls) = 3
    /\ Len(calls[1]) = 100 /\ Len(calls[2]) = 100 /\ Len(calls[3]) = 50

\* C8: the sequential runner executes the operations one at a time in
\* submission order and yields one outcome per operation in that order; a
\* remote error becomes an error outcome and the later operations still run
C8_SequentialOrder ==
    dKind = "sequential" /\ pc = "idle" =>
        \* executed in submission order, the next one only once the last was taken
        /\ Len(execLog) <= Len(dRequests)
        /\ \A i \in 1..Len(execLog) : execLog[i].id = dRequests[i]
        /\ Len(received) + Len(dOut) <= Len(execLog)
        /\ Len(dOut) <= 1
        \* one outcome per executed operation, in the same order
        /\ \A i \in 1..Len(received) :
            /\ received[i].id = dRequests[i]
            /\ (execLog[i].outcome = "ok") =
                    (received[i].error = NoError /\ received[i].response = "ok")
            /\ (execLog[i].outcome = "http_error") =
                    (received[i].error # NoError /\ received[i].response = "none")
        \* a remote error stops nothing
        /\ dpc = "raised" => execLog[Len(execLog)].outcome = "exception"
        /\ dpc = "exhausted" => Len(received) = Len(dRequests)
        /\ (dpc = "running" /\ dOut = <<>> /\ Len(execLog) < Len(dRequests))
                => ENABLED SeqExecute

\* C8 witness: the first operation failed with a remote error, the later ones
\* were executed all the same
C8_Witness ==
    /\ dKind = "sequential" /\ pc = "idle"
    /\ dpc = "exhausted"
    /\ Len(dRequests) >= 2
    /\ received[1].error # NoError
    /\ received[2].error = NoError
    /\ Len(received) = Len(dRequests)

-----------------------------------------------------------------------------
(* ErrorHandlingRunner *)

\* float('Inf'): above every value the saturating clock takes
Inf == MaxClock + 1

\* a table that retries every status and one that skips every status
RetryAll == << HttpErrorPolicy(Statuses, {}, FALSE, FALSE, RETRY) >>
SkipAll == << HttpErrorPolicy(Statuses, {}, FALSE, TRUE, SKIP) >>

\* a table with a quiet Skip, a quiet Fail and a Retry that always warns
Mixed ==
    << HttpErrorPolicy({"404"}, {}, FALSE, FALSE, SKIP),
       HttpErrorPolicy({"500"}, {}, FALSE, FALSE, FAIL),
       HttpErrorPolicy({"403"}, {}, FALSE, TRUE, RETRY) >>

RunnerTables == {DEFAULT_POLICIES, fail_on_404, RetryAll, SkipAll, Mixed}

\* ErrorHandlingRunner.__init__ followed by add() for the ids 1..n
Init ==
    /\ \E n \in 0..MaxOps :
        /\ requests = [i \in 1..n |-> i]
        /\ flaky = 1..n
    /\ cfg \in [timeout : {0, 1, 2, Inf},
                min_backoff : {1, 2},
                max_retries : 0..MaxRetries,
                policies : RunnerTables,
                delegate : {"sequential", "batch"}]
    /\ pending = <<>>
    /\ warnings = {}
    /\ attempts = 0
    /\ backoff = 0
    /\ now = 0
    /\ pc = "init"
    /\ raised = NoRaise
    /\ yielded = <<>>
    /\ sleeps = <<>>
    /\ errored = {}
    /\ errCount = [e \in RemoteErrors |-> 0]
    /\ printCount = [c \in Statuses |-> 0]
    /\ passes = 0
    /\ passInfo = [backoff |-> 0, successes |-> 0, logged |-> 0, last |-> 0,
                   skipped |-> {}]
    /\ dKind = "none" /\ dRequests = <<>> /\ dCursor = 1 /\ dOut = <<>> /\ dpc = "idle"
    /\ calls = <<>> /\ execLog = <<>> /\ received = <<>>
    /\ TableIdle /\ ResolverIdle /\ CommandsIdle

\* execute(), up to the while loop
ExecuteBegin ==
    /\ pc = "init"
    /\ pending' = requests
    /\ warnings' = {}
    /\ attempts' = 1
    /\ backoff' = cfg.min_backoff
    /\ now' = 0
    /\ pc' = "loop"
    /\ UNCHANGED <<cfg, requests, raised, yielded, sleeps, errored, errCount, printCount, passes, passInfo>>
    /\ UNCHANGED <<delegateVars, tableVars, resolverVars, commandVars>>

\* mutant: one attempt fewer
LoopCondition_strict(elapsed, att) == elapsed < cfg.timeout /\ att < cfg.max_retries

\* the while condition
LoopCondition(elapsed, att) == elapsed < cfg.timeout /\ att <= cfg.max_retries

\* the loop is entered: _run_requests hands the pending requests to a new delegate
BeginPass ==
    /\ pc = "loop"
    /\ LoopCondition(now, attempts)
    /\ pc' = "pass"
    /\ dKind' = cfg.delegate
    /\ dRequests' = pending
    /\ dCursor' = 1
    /\ dOut' = <<>>
    /\ dpc' = "running"
    /\ passes' = passes + 1
    /\ passInfo' = [backoff |-> backoff, successes |-> 0,
                     logged |-> Len(execLog), last |-> passInfo.last,
                     skipped |-> passInfo.skipped]
    /\ UNCHANGED <<calls, execLog, flaky, received>>
    /\ UNCHANGED <<cfg, requests, pending, warnings, attempts, backoff, now, raised,
                   yielded, sleeps, errored, errCount, printCount>>
    /\ UNCHANGED <<tableVars, resolverVars, commandVars>>

\* mutant: the text names the timeout whenever the timeout was reached
TerminalMessage_timeout_first(att) ==
    IF now >= cfg.timeout THEN "timed_out" ELSE "too_many_retries"

\* the text of the terminal exception
TerminalMessage(att) ==
    IF att > cfg.max_retries THEN "too_many_retries" ELSE "timed_out"

\* the loop is left with requests pending, or was never entered
GiveUp ==
    /\ pc = "loop"
    /\ ~LoopCondition(now, attempts)
    /\ pc' = "raised"
    /\ raised' = [kind |-> TerminalMessage(attempts), error |-> NoError]
    /\ UNCHANGED <<cfg, requests, pending, warnings, attempts, backoff, now,
                   yielded, sleeps, errored, errCount, printCount, passes, passInfo>>
    /\ UNCHANGED <<delegateVars, tableVars, resolverVars, commandVars>>

\* the result the for loop is handed next
HasResult == pc = "pass" /\ dpc = "running" /\ dOut # <<>>
Result == Head(dOut)
Policy == matching(cfg.policies, Result.error).policy
ErrorCode == matching(cfg.policies, Result.error).code

\* mutant: a success does not reset the attempts
HandleSuccess_keeps_attempts ==
    /\ HasResult
    /\ Result.error = NoError
    /\ pending' = Without(pending, Result.id)
    /\ yielded' = Append(yielded, Result.id)
    /\ attempts' = attempts
    /\ backoff' = cfg.min_backoff
    /\ passInfo' = [passInfo EXCEPT !.successes = @ + 1, !.last = passes]
    /\ dOut' = Tail(dOut)
    /\ UNCHANGED <<dKind, dRequests, dCursor, dpc, calls, execLog, flaky, received>>
    /\ UNCHANGED <<cfg, requests, warnings, now, pc, raised, sleeps, errored, errCount, printCount, passes>>
    /\ UNCHANGED <<tableVars, resolverVars, commandVars>>

\* mutant: a success does not reset the backoff
HandleSuccess_keeps_backoff ==
    /\ HasResult
    /\ Result.error = NoError
    /\ pending' = Without(pending, Result.id)
    /\ yielded' = Append(yielded, Result.id)
    /\ attempts' = 1
    /\ backoff' = backoff
    /\ passInfo' = [passInfo EXCEPT !.successes = @ + 1, !.last = passes]
    /\ dOut' = Tail(dOut)
    /\ UNCHANGED <<dKind, dRequests, dCursor, dpc, calls, execLog, flaky, received>>
    /\ UNCHANGED <<cfg, requests, warnings, now, pc, raised, sleeps, errored, errCount, printCount, passes>>
    /\ UNCHANGED <<tableVars, resolverVars, commandVars>>

\* mutant: a request that succeeded stays pending
HandleSuccess_stays_pending ==
    /\ HasResult
    /\ Result.error = NoError
    /\ pending' = pending
    /\ yielded' = Append(yielded, Result.id)
    /\ attempts' = 1
    /\ backoff' = cfg.min_backoff
    /\ passInfo' = [passInfo EXCEPT !.successes = @ + 1, !.last = passes]
    /\ dOut' = Tail(dOut)
    /\ UNCHANGED <<dKind, dRequests, dCursor, dpc, calls, execLog, flaky, received>>
    /\ UNCHANGED <<cfg, requests, warnings, now, pc, raised, sleeps, errored, errCount, printCount, passes>>
    /\ UNCHANGED <<tableVars, resolverVars, commandVars>>

\* result.error is None: drop from pending, yield, reset attempts and backoff
HandleSuccess ==
    /\ HasResult
    /\ Result.error = NoError
    /\ pending' = Without(pending, Result.id)
    /\ yielded' = Append(yielded, Result.id)
    /\ attempts' = 1
    /\ backoff' = cfg.min_backoff
    /\ passInfo' = [passInfo EXCEPT !.successes = @ + 1, !.last = passes]
    /\ dOut' = Tail(dOut)
    /\ UNCHANGED <<dKind, dRequests, dCursor, dpc, calls, execLog, flaky, received>>
    /\ UNCHANGED <<cfg, requests, warnings, now, pc, raised, sleeps, errored, errCount, printCount, passes>>
    /\ UNCHANGED <<tableVars, resolverVars, commandVars>>

\* an error outcome reached the handler
Errored ==
    /\ errored' = errored \cup {Result.id}
    /\ errCount' = [errCount EXCEPT ![Result.error] = @ + 1]

\* raise result.error out of execute(): the delegate's generator is dropped
Raise(error) ==
    /\ pc' = "raised"
    /\ raised' = [kind |-> "error", error |-> error]
    /\ dpc' = "closed"
    /\ UNCHANGED <<dKind, dRequests, dCursor, dOut, calls, execLog, flaky, received>>

\* mutant: print_always is ignored
Warn_once ==
    IF ErrorCode \notin warnings
    THEN /\ printCount' = [printCount EXCEPT ![ErrorCode] = @ + 1]
         /\ warnings' = warnings \cup {ErrorCode}
    ELSE UNCHANGED <<printCount, warnings>>

\* the warning of a matched policy, once per status code unless print_always
Warn ==
    IF Policy.print_always \/ ErrorCode \notin warnings
    THEN /\ printCount' = [printCount EXCEPT ![ErrorCode] = @ + 1]
         /\ warnings' = warnings \cup {ErrorCode}
    ELSE UNCHANGED <<printCount, warnings>>

\* case 1: no policy matches the error
HandleUnmatched ==
    /\ HasResult
    /\ Result.error # NoError
    /\ Policy = NoPolicy
    /\ Errored
    /\ Raise(Result.error)
    /\ UNCHANGED <<cfg, requests, pending, warnings, attempts, backoff, now,
                   yielded, sleeps, printCount, passes, passInfo>>
    /\ UNCHANGED <<tableVars, resolverVars, commandVars>>

\* mutant: a skipped request stays pending
HandleSkip_stays_pending ==
    /\ HasResult
    /\ Result.error # NoError
    /\ Policy # NoPolicy
    /\ Policy.action = SKIP
    /\ Errored
    /\ Warn
    /\ passInfo' = [passInfo EXCEPT !.skipped = @ \cup {Result.id}]
    /\ dOut' = Tail(dOut)
    /\ UNCHANGED <<dKind, dRequests, dCursor, dpc, calls, execLog, flaky, received>>
    /\ UNCHANGED <<cfg, requests, pending, attempts, backoff, now, pc, raised,
                   yielded, sleeps, passes>>
    /\ UNCHANGED <<tableVars, resolverVars, commandVars>>

\* case 2: the policy says skip
HandleSkip ==
    /\ HasResult
    /\ Result.error # NoError
    /\ Policy # NoPolicy
    /\ Policy.action = SKIP
    /\ Errored
    /\ Warn
    /\ pending' = Without(pending, Result.id)
    /\ passInfo' = [passInfo EXCEPT !.skipped = @ \cup {Result.id}]
    /\ dOut' = Tail(dOut)
    /\ UNCHANGED <<dKind, dRequests, dCursor, dpc, calls, execLog, flaky, received>>
    /\ UNCHANGED <<cfg, requests, attempts, backoff, now, pc, raised,
                   yielded, sleeps, passes>>
    /\ UNCHANGED <<tableVars, resolverVars, commandVars>>

\* case 3: the policy says retry
HandleRetry ==
    /\ HasResult
    /\ Result.error # NoError
    /\ Policy # NoPolicy
    /\ Policy.action = RETRY
    /\ Errored
    /\ Warn
    /\ dOut' = Tail(dOut)
    /\ UNCHANGED <<dKind, dRequests, dCursor, dpc, calls, execLog, flaky, received>>
    /\ UNCHANGED <<cfg, requests, pending, attempts, backoff, now, pc, raised,
                   yielded, sleeps, passes, passInfo>>
    /\ UNCHANGED <<tableVars, resolverVars, commandVars>>

\* mutant: a failing policy is handled as a retry
HandleFail_retries ==
    /\ HasResult
    /\ Result.error # NoError
    /\ Policy # NoPolicy
    /\ Policy.action = FAIL
    /\ Errored
    /\ Warn
    /\ dOut' = Tail(dOut)
    /\ UNCHANGED <<dKind, dRequests, dCursor, dpc, calls, execLog, flaky, received>>
    /\ UNCHANGED <<cfg, requests, pending, attempts, backoff, now, pc, raised,
                   yielded, sleeps, passes, passInfo>>
    /\ UNCHANGED <<tableVars, resolverVars, commandVars>>

\* case 4: the policy says fail
HandleFail ==
    /\ HasResult
    /\ Result.error # NoError
    /\ Policy # NoPolicy
    /\ Policy.action = FAIL
    /\ Errored
    /\ Warn
    /\ Raise(Result.error)
    /\ UNCHANGED <<cfg, requests, pending, attempts, backoff, now,
                   yielded, sleeps, passes, passInfo>>
    /\ UNCHANGED <<tableVars, resolverVars, commandVars>>

\* an exception that is no HttpError leaves the delegate and execute() with it
PropagateException ==
    /\ pc = "pass"
    /\ dpc = "raised"
    /\ pc' = "raised"
    /\ raised' = [kind |-> "exception", error |-> NoError]
    /\ dpc' = "closed"
    /\ UNCHANGED <<dKind, dRequests, dCursor, dOut, calls, execLog, flaky, received>>
    /\ UNCHANGED <<cfg, requests, pending, warnings, attempts, backoff, now,
                   yielded, sleeps, errored, errCount, printCount, passes, passInfo>>
    /\ UNCHANGED <<tableVars, resolverVars, commandVars>>

\* the pass is over and nothing is pending
Return ==
    /\ pc = "pass"
    /\ DelegateExhausted
    /\ pending = <<>>
    /\ pc' = "returned"
    /\ dpc' = "exhausted"
    /\ UNCHANGED <<dKind, dRequests, dCursor, dOut, calls, execLog, flaky, received>>
    /\ UNCHANGED <<cfg, requests, pending, warnings, attempts, backoff, now, raised,
                   yielded, sleeps, errored, errCount, printCount, passes, passInfo>>
    /\ UNCHANGED <<tableVars, resolverVars, commandVars>>

\* mutant: the backoff is not doubled
NextBackoff_same(b) == b

NextBackoff(b) == b * 2

\* the pass is over with requests pending: sleep, double the backoff, count
BackOff ==
    /\ pc = "pass"
    /\ DelegateExhausted
    /\ pending # <<>>
    /\ sleeps' = Append(sleeps, backoff)
    /\ now' = Elapse(backoff)
    /\ backoff' = NextBackoff(backoff)
    /\ attempts' = attempts + 1
    /\ pc' = "loop"
    /\ dpc' = "exhausted"
    /\ UNCHANGED <<dKind, dRequests, dCursor, dOut, calls, execLog, flaky, received>>
    /\ UNCHANGED <<cfg, requests, pending, warnings, raised,
                   yielded, errored, errCount, printCount, passes, passInfo>>
    /\ UNCHANGED <<tableVars, resolverVars, commandVars>>

Next ==
    \/ ExecuteBegin
    \/ BeginPass
    \/ GiveUp
    \/ SeqExecute
    \/ BatchExecute
    \/ HandleSuccess
    \/ HandleUnmatched
    \/ HandleSkip
    \/ HandleRetry
    \/ HandleFail
    \/ PropagateException
    \/ Return
    \/ BackOff

Spec == Init /\ [][Next]_vars

-----------------------------------------------------------------------------
(* Claims about ErrorHandlingRunner.execute *)

\* number of times request id was executed
ExecCount(id) == Cardinality({i \in 1..Len(execLog) : execLog[i].id = id})

\* no request execution ended with an exception that is no HttpError
OnlyRemoteErrors == \A i \in 1..Len(execLog) : execLog[i].outcome # "exception"

Terminal == pc \in {"returned", "raised"}

\* the case of C1: unbounded timeout, every error retried, one operation that
\* has errored on every attempt so far
C1Case ==
    /\ pc # "init"
    /\ cfg.timeout = Inf
    /\ \A e \in RemoteErrors : matching(cfg.policies, e).policy.action = RETRY
    /\ Len(requests) = 1
    /\ yielded = <<>>
    /\ OnlyRemoteErrors

\* C1: with an unbounded timeout, an all-Retry table and one operation that
\* always errors, the operation is executed once per pass, never more than
\* max_retries times, execute() cannot return or stall, and when it raises it
\* raises 'too many retry attempts' after exactly max_retries executions
C1_ExhaustionBoundary ==
    C1Case =>
        /\ ExecCount(1) <= cfg.max_retries
        /\ pc # "returned"
        /\ ~Terminal => ENABLED Next
        /\ pc = "raised" =>
            /\ raised.kind = "too_many_retries"
            /\ ExecCount(1) = cfg.max_retries
            /\ passes = cfg.max_retries

\* C1 witness: max_retries = 2, two executions, then the terminal error
C1_Witness ==
    /\ C1Case
    /\ pc = "raised"
    /\ cfg.max_retries = 2
    /\ ExecCount(1) = 2
    /\ raised.kind = "too_many_retries"

\* every error handled so far matched a Skip policy
AllErrorsSkipped ==
    /\ pc # "init"
    /\ OnlyRemoteErrors
    /\ \A e \in RemoteErrors :
        errCount[e] > 0 => matching(cfg.policies, e).policy.action = SKIP

\* what C2 promises of such a run
SkipRun ==
    /\ sleeps = <<>>
    /\ attempts = 1
    /\ passes <= 1
    /\ Terminal =>
        /\ pc = "returned"
        /\ passes = 1
        /\ Range(yielded) = Range(requests) \ errored
        /\ Len(yielded) = Cardinality(Range(yielded))

\* C2 as stated: if every error matches a Skip policy, execute() returns
\* normally after a single pass, having yielded exactly the outcomes of the
\* operations that did not error, without sleeping or counting an attempt
C2_SkipReturns == AllErrorsSkipped => SkipRun

\* C2 amended: the same, provided the loop is entered at all (max_retries >= 1
\* and timeout > 0)
C2_SkipReturnsOnceEntered ==
    (AllErrorsSkipped /\ cfg.max_retries >= 1 /\ cfg.timeout > 0) => SkipRun

\* C2 witness: under the default table one operation got a 404 and was
\* skipped, the other succeeded and was yielded, and execute() returned
C2_Witness ==
    /\ AllErrorsSkipped
    /\ cfg.policies = DEFAULT_POLICIES
    /\ pc = "returned"
    /\ errored = {1}
    /\ yielded = <<2>>

\* a pass has run to its end: execute() returned, or slept and is back at the
\* loop test
PassEnded == passes >= 1 /\ pc \in {"loop", "returned"}

\* C3, first half: a pass without success that leaves requests pending doubles
\* the backoff
DoublesWithoutSuccess ==
    (passInfo.successes = 0 /\ pending # <<>>) => backoff = 2 * passInfo.backoff

\* C3 as stated: after a pass without success that leaves requests pending the
\* backoff is double its value before the pass; after a pass with a success
\* it is min_backoff
C3_BackoffAfterPass ==
    PassEnded =>
        /\ DoublesWithoutSuccess
        /\ passInfo.successes >= 1 => backoff = cfg.min_backoff

\* C3 amended: after a pass with a success the backoff is min_backoff only if
\* the pass emptied pending; if requests are left, the sleep ending the pass
\* lasted min_backoff and the backoff after it is 2 * min_backoff
C3_BackoffAfterPassAmended ==
    PassEnded =>
        /\ DoublesWithoutSuccess
        /\ (passInfo.successes >= 1 /\ pending = <<>>) => backoff = cfg.min_backoff
        /\ (passInfo.successes >= 1 /\ pending # <<>>) =>
            /\ sleeps[Len(sleeps)] = cfg.min_backoff
            /\ backoff = 2 * cfg.min_backoff

\* C3 witness: a first pass without success doubled the backoff, a second pass
\* had a success and left a request pending
C3_Witness ==
    /\ pc = "loop"
    /\ passes = 2
    /\ passInfo.successes = 1
    /\ passInfo.backoff = 2 * cfg.min_backoff
    /\ pending # <<>>
    /\ backoff = 2 * cfg.min_backoff

\* the result about to be handled is an error with no policy or a Fail policy
Unrecoverable ==
    /\ HasResult
    /\ Result.error # NoError
    /\ (Policy = NoPolicy \/ Policy.action = FAIL)

\* C4: an error with no policy, or with a Fail policy, is raised by the very
\* next step: nothing more is yielded, no further request is executed, no
\* further pass or sleep takes place, and nothing happens after the raise
C4_UnrecoverableAborts ==
    [][ /\ Unrecoverable =>
            /\ pc' = "raised"
            /\ raised' = [kind |-> "error", error |-> Result.error]
            /\ UNCHANGED <<yielded, execLog, calls, sleeps, passes, now>>
        /\ pc = "raised" => UNCHANGED vars ]_vars

\* C4 witness: a sequential pass over two requests was aborted by a Fail policy
\* on the first; the second was never executed
C4_Witness ==
    /\ pc = "raised"
    /\ raised.kind = "error"
    /\ matching(cfg.policies, raised.error).policy.action = FAIL
    /\ cfg.delegate = "sequential"
    /\ Len(dRequests) = 2
    /\ dCursor = 2
    /\ ExecCount(2) = 0

\* execute() left the loop and raised its terminal exception
Exhausted == pc = "raised" /\ raised.kind \in {"too_many_retries", "timed_out"}

\* C23 as stated: the terminal error says 'too many retry attempts' if and only
\* if the attempts bound was exceeded, and 'timed out' if and only if the
\* elapsed time reached the timeout
C23_MessageNamesBound ==
    Exhausted =>
        /\ raised.kind = "too_many_retries" <=> attempts > cfg.max_retries
        /\ raised.kind = "timed_out" <=> now >= cfg.timeout

\* C23 amended: the terminal error says 'too many retry attempts' if and only
\* if the attempts bound was exceeded, whether or not the timeout was reached
\* as well, and 'timed out' if and only if the timeout was reached and the
\* attempts bound was not exceeded
C23_MessageNamesAttemptsFirst ==
    Exhausted =>
        /\ raised.kind = "too_many_retries" <=> attempts > cfg.max_retries
        /\ raised.kind = "timed_out" <=>
                (now >= cfg.timeout /\ attempts <= cfg.max_retries)

\* C23 witness: after one pass both bounds were hit at once, and the error
\* says 'too many retry attempts'
C23_Witness ==
    /\ Exhausted
    /\ passes = 1
    /\ cfg.timeout \in 1..MaxClock
    /\ now >= cfg.timeout
    /\ attempts > cfg.max_retries
    /\ raised.kind = "too_many_retries"

\* the case of C24: unbounded timeout, the attempts ran out after a pass with a
\* success
C24Case ==
    /\ Exhausted
    /\ cfg.timeout = Inf
    /\ passInfo.last >= 1

\* passes run to their end without a success since the last pass with one
PassesSinceSuccess == passes - passInfo.last

\* C24 as stated: after a pass with a success the runner tolerates max_retries
\* consecutive passes without one before it raises 'too many retry attempts',
\* as a newly started runner does
C24_FreshBudget ==
    C24Case =>
        /\ raised.kind = "too_many_retries"
        /\ PassesSinceSuccess = cfg.max_retries

\* C24 amended: the pass with the success counts as the first attempt of the
\* new budget, so the runner tolerates max_retries - 1 consecutive passes
\* without a success after it, one fewer than a newly started runner
C24_BudgetCountsSuccessPass ==
    /\ C24Case =>
        /\ raised.kind = "too_many_retries"
        /\ PassesSinceSuccess = cfg.max_retries - 1
    /\ (Exhausted /\ cfg.timeout = Inf /\ passInfo.last = 0 /\ requests # <<>>) =>
        /\ raised.kind = "too_many_retries"
        /\ passes = cfg.max_retries

\* C24 witness: max_retries = 2; the first pass had a success and left a
\* request pending, the second had none, and the terminal error was raised
C24_Witness ==
    /\ C24Case
    /\ cfg.max_retries = 2
    /\ passInfo.last = 1
    /\ passes = 2
    /\ raised.kind = "too_many_retries"

\* C25: execute() raises the terminal exhaustion error only when at least one
\* operation is still pending; with nothing pending, and when called with no
\* operations at all, it returns normally whatever max_retries and timeout are
C25_RaisesOnlyWithPending ==
    /\ Exhausted => pending # <<>>
    /\ (Terminal /\ requests = <<>>) => pc = "returned"

\* the sleep that ended the pass last run to its end
LastSleep == sleeps[Len(sleeps)]

\* C26: the sleep after a pass that leaves requests pending lasts min_backoff
\* if the pass is the first one or had a success, and otherwise twice the
\* previous sleep; a pass that empties pending is followed by no sleep
C26_SleepDurations ==
    [][ /\ sleeps' # sleeps =>
            /\ pc = "pass" /\ pending # <<>>
            /\ sleeps' = Append(sleeps, backoff)
            /\ IF passes = 1 \/ passInfo.successes >= 1
               THEN backoff = cfg.min_backoff
               ELSE backoff = 2 * LastSleep
        /\ (pc = "pass" /\ pc' \in {"loop", "returned"} /\ pending = <<>>) =>
            /\ sleeps' = sleeps
            /\ now' = now
            /\ pc' = "returned" ]_vars

\* C26 witness: three passes slept min_backoff (first pass), min_backoff (a
\* success) and twice that (no success)
C26_Witness ==
    /\ cfg.min_backoff = 2
    /\ sleeps = <<2, 2, 4>>
    /\ Len(yielded) = 1

\* the requests executed since the pass last started, in order
ExecutedInPass ==
    [i \in 1..(Len(execLog) - passInfo.logged) |-> execLog[passInfo.logged + i].id]

\* C27: the bounds are tested only between passes: a started pass executes
\* every request pending at its start, whatever the clock says, unless an
\* unrecoverable error or an exception aborts it, and returns normally if it
\* empties pending although the timeout has passed
C27_BoundsBetweenPasses ==
    [][ /\ (pc = "loop" /\ pc' = "pass") => dRequests' = pending
        /\ (pc = "pass" /\ pc' \in {"loop", "returned"}) =>
            ExecutedInPass = dRequests
        /\ (pc = "pass" /\ pc' = "raised") => raised'.kind \in {"error", "exception"}
        /\ (pc = "pass" /\ DelegateExhausted /\ pending = <<>>) =>
            (pc' = "returned" /\ raised' = NoRaise) ]_vars

\* C27 witness: the timeout passed during the only pass, both requests were
\* executed and yielded, and execute() returned
C27_Witness ==
    /\ pc = "returned"
    /\ passes = 1
    /\ cfg.timeout \in 1..MaxClock
    /\ now >= cfg.timeout
    /\ ExecutedInPass = <<1, 2>>
    /\ yielded = <<1, 2>>

\* C28: a policy whose print_always is false prints its warning at most once
\* per status code, however many requests and passes produce the code; a
\* policy whose print_always is true prints it for every error it matches;
\* whether the policy skips, retries or fails
C28_WarnOnce ==
    \A e \in RemoteErrors :
        LET m == matching(cfg.policies, e) IN
        m.policy # NoPolicy =>
            printCount[m.code] =
                IF m.policy.print_always THEN errCount[e] ELSE Min(errCount[e], 1)

\* C28 witness: under the mixed table two requests got a 403 each in the
\* first pass and a 404 each in the second: two warnings for the 403s, whose
\* policy always warns, and a single one for the 404s
C28_Witness ==
    /\ cfg.policies = Mixed
    /\ passes = 2
    /\ errCount[HttpError("403", "none")] = 2
    /\ printCount["403"] = 2
    /\ errCount[HttpError("404", "none")] = 2
    /\ printCount["404"] = 1


\* the ids that the step executes
ExecutedByStep == {execLog'[i].id : i \in (Len(execLog) + 1)..Len(execLog')}

\* C32: within one execute() over unique ids, a request that has succeeded or
\* was skipped is never executed again, each request is yielded at most once,
\* and when execute() returns every request was either yielded once or
\* skipped, never both
C32_NoReexecution ==
    /\ [][ExecutedByStep \cap (Range(yielded) \cup passInfo.skipped) = {}]_vars
    /\ [](/\ Len(yielded) = Cardinality(Range(yielded))
          /\ Range(yielded) \cap passInfo.skipped = {}
          /\ pc = "returned" =>
                Range(yielded) \cup passInfo.skipped = Range(requests))

\* C32 witness: of two requests one was skipped in the first pass and the
\* other, retried once, succeeded in the second; execute() returned after
\* three executions
C32_Witness ==
    /\ pc = "returned"
    /\ passes = 2
    /\ Len(execLog) = 3
    /\ Cardinality(passInfo.skipped) = 1
    /\ Len(yielded) = 1

-----------------------------------------------------------------------------
(* resolve_paths, _resource_path and ResourcePath.__str__ *)

Ids == 1..MaxNodes

\* resource names, as sequences of characters; resource i is named Names[i]
Names ==
    << <<"r", "o", "o", "t">>, <<"A">>, <<"B">>, <<"l", "e", "a", "f">>,
       <<"C">>, <<"D">>, <<"E">> >>

\* the parents lists a resource may carry: none, one, or two different ones
ParentLists(S) ==
    {<<>>} \cup {<<x>> : x \in S} \cup {p \in S \X S : p[1] # p[2]}

\* Resource / DriveFolder / DriveFile: the fields path resolution reads
Resource(id, parents) == [id |-> id, name |-> Names[id], parents |-> parents]

\* the remote hierarchies: a resource's parents have smaller ids, so that
\* parent links form no cycle
Hierarchies ==
    {[i \in Ids |-> Resource(i, ps[i])] :
        ps \in {f \in [Ids -> ParentLists(Ids)] :
                    \A i \in Ids : \A k \in 1..Len(f[i]) : f[i][k] < i}}

ResolveInit ==
    /\ drive \in Hierarchies
    /\ leaves \in DistinctSeqs(Ids, 1, 2)
    /\ resolved = {}
    /\ rpc = "init"
    /\ rerror = "none"
    /\ paths = <<>>
    /\ rendered = <<>>
    /\ rounds = <<>>
    /\ TableIdle /\ DelegateIdle /\ RunnerIdle /\ CommandsIdle

\* resolved = {leaf.id: leaf for leaf in leaves}
ResolveBegin ==
    /\ rpc = "init"
    /\ resolved' = Range(leaves)
    /\ rpc' = "loop"
    /\ UNCHANGED <<drive, leaves, rerror, paths, rendered, rounds>>
    /\ UNCHANGED <<tableVars, delegateVars, runnerVars, commandVars>>

\* parents - resolved.keys()
Unresolved ==
    UNION {Range(drive[id].parents) : id \in resolved} \ resolved

\* if not unresolved: break
FetchDone ==
    /\ rpc = "loop"
    /\ Unresolved = {}
    /\ rpc' = "build"
    /\ UNCHANGED <<drive, leaves, resolved, rerror, paths, rendered, rounds>>
    /\ UNCHANGED <<tableVars, delegateVars, runnerVars, commandVars>>

\* what multiget_gd's runner does with the 404 of a resource that is gone
OnNotFound == matching(fail_on_404, HttpError("404", "none")).policy.action

\* mutant: a round fetches a single unresolved id
FetchRound_one_id ==
    /\ rpc = "loop"
    /\ Unresolved # {}
    /\ LET one == {CHOOSE id \in Unresolved : \A other \in Unresolved : id >= other} IN
        /\ rounds' = Append(rounds, one)
        /\ resolved' = resolved \cup one
    /\ UNCHANGED <<drive, leaves, rpc, rerror, paths, rendered>>
    /\ UNCHANGED <<tableVars, delegateVars, runnerVars, commandVars>>

\* resolved.update(get_resources(service, unresolved)): every id is found
FetchRound ==
    /\ rpc = "loop"
    /\ Unresolved # {}
    /\ rounds' = Append(rounds, Unresolved)
    /\ resolved' = resolved \cup Unresolved
    /\ UNCHANGED <<drive, leaves, rpc, rerror, paths, rendered>>
    /\ UNCHANGED <<tableVars, delegateVars, runnerVars, commandVars>>

\* get_resources does not deliver every id: some are gone from the remote and
\* their 404 is handled by multiget_gd's table (Fail: the error is raised; Skip:
\* the resources that are gone are left out and the loop goes round again), or
\* the runner ran out of retries
FetchFails ==
    /\ rpc = "loop"
    /\ Unresolved # {}
    /\ Len(rounds) <= MaxNodes
    /\ rounds' = Append(rounds, Unresolved)
    /\ \/ \E gone \in SUBSET Unresolved \ {{}} :
            IF OnNotFound = FAIL
            THEN /\ rerror' = "http_404"
                 /\ rpc' = "raised"
                 /\ UNCHANGED resolved
            ELSE /\ resolved' = resolved \cup (Unresolved \ gone)
                 /\ UNCHANGED <<rpc, rerror>>
       \/ /\ rerror' = "retries_exhausted"
          /\ rpc' = "raised"
          /\ UNCHANGED resolved
    /\ UNCHANGED <<drive, leaves, paths, rendered>>
    /\ UNCHANGED <<tableVars, delegateVars, runnerVars, commandVars>>

\* mutant: several parents are let through and the first one is followed
TooManyParents_never(parents) == FALSE

\* len(resource.parents) > 1
TooManyParents(parents) == Len(parents) > 1

\* _resource_path: the ancestors of a resource, nearest first, or the
\* exception it raises
RECURSIVE resource_path(_, _)
resource_path(id, table) ==
    LET parents == drive[id].parents IN
    IF parents = <<>> THEN [err |-> "none", path |-> <<>>]
    ELSE IF TooManyParents(parents) THEN [err |-> "multi_parent", path |-> <<>>]
    ELSE IF parents[1] \notin table THEN [err |-> "key_error", path |-> <<>>]
    ELSE LET rest == resource_path(parents[1], table) IN
         IF rest.err # "none" THEN rest
         ELSE [err |-> "none", path |-> <<parents[1]>> \o rest.path]

\* the leaves whose path raises, in list order
Failing == SelectSeq(leaves, LAMBDA id: resource_path(id, resolved).err # "none")

\* the list comprehension of resolve_paths: every leaf has a path
BuildReturn ==
    /\ rpc = "build"
    /\ Failing = <<>>
    /\ paths' = [k \in 1..Len(leaves) |->
                    [resource |-> leaves[k],
                     path |-> resource_path(leaves[k], resolved).path]]
    /\ rpc' = "returned"
    /\ UNCHANGED <<drive, leaves, resolved, rerror, rendered, rounds>>
    /\ UNCHANGED <<tableVars, delegateVars, runnerVars, commandVars>>

\* the list comprehension raises at the first leaf whose path raises
BuildRaises ==
    /\ rpc = "build"
    /\ Failing # <<>>
    /\ rerror' = resource_path(Failing[1], resolved).err
    /\ rpc' = "raised"
    /\ UNCHANGED <<drive, leaves, resolved, paths, rendered, rounds>>
    /\ UNCHANGED <<tableVars, delegateVars, runnerVars, commandVars>>

\* sep.join(strs)
RECURSIVE Join(_, _)
Join(strs, sep) ==
    IF strs = <<>> THEN <<>>
    ELSE IF Len(strs) = 1 THEN strs[1]
    ELSE strs[1] \o sep \o Join(Tail(strs), sep)

\* ResourcePath.__str__
Str(rp) ==
    <<"/">> \o Join(Reversed(<<drive[rp.resource].name>> \o
                             [i \in 1..Len(rp.path) |-> drive[rp.path[i]].name]),
                    <<"/">>)

\* a caller renders the paths it was returned (dedup_list, dedup_apply)
Render ==
    /\ rpc = "returned"
    /\ rendered' = [k \in 1..Len(paths) |-> Str(paths[k])]
    /\ rpc' = "rendered"
    /\ UNCHANGED <<drive, leaves, resolved, rerror, paths, rounds>>
    /\ UNCHANGED <<tableVars, delegateVars, runnerVars, commandVars>>

ResolveNext ==
    \/ ResolveBegin
    \/ FetchDone
    \/ FetchRound
    \/ FetchFails
    \/ BuildReturn
    \/ BuildRaises
    \/ Render

SpecResolve == ResolveInit /\ [][ResolveNext]_vars

\* resolve_paths runs in one thread that is never held up for good: whenever
\* it has a next step it takes one
SpecResolveFair == SpecResolve /\ WF_vars(ResolveNext)

-----------------------------------------------------------------------------
(* Claims about path resolution *)

\* the hierarchy root -> A -> B -> leaf: resource 1 (root) has no parent,
\* 2 (A) is in 1, 3 (B) is in 2, 4 (leaf) is in 3
IsChain ==
    /\ drive[1].parents = <<>>
    /\ drive[2].parents = <<1>>
    /\ drive[3].parents = <<2>>
    /\ drive[4].parents = <<3>>

\* C9: for the hierarchy root -> A -> B -> leaf, resolve_paths followed by
\* rendering the leaf's path yields '/A/B/leaf'
C9_ChainRendering ==
    (rpc = "rendered" /\ IsChain) =>
        \A k \in 1..Len(leaves) :
            leaves[k] = 4 =>
                rendered[k] = <<"/", "A", "/", "B", "/", "l", "e", "a", "f">>

\* every resource reachable from id over parent links, id included
RECURSIVE Ancestry(_)
Ancestry(id) ==
    {id} \cup UNION {Ancestry(drive[id].parents[k]) : k \in 1..Len(drive[id].parents)}

\* a leaf, or a resource above a leaf, has more than one parent
SomeMultiParent ==
    \E k \in 1..Len(leaves) : \E id \in Ancestry(leaves[k]) : Len(drive[id].parents) > 1

\* every parent referenced by a resource of the table is in the table
AllParentsFetched ==
    \A id \in resolved : \A k \in 1..Len(drive[id].parents) :
        drive[id].parents[k] \in resolved

\* C10: when a leaf or a resource on a leaf's ancestor chain has more than one
\* parent, resolve_paths returns no path for any leaf; once the fetches are
\* through it raises the structural error, and it raises that error only
\* during path construction, with every referenced parent fetched
C10_MultiParentRejected ==
    /\ rpc \in {"returned", "rendered"} => ~SomeMultiParent
    /\ (SomeMultiParent /\ rpc = "raised") => paths = <<>>
    /\ (SomeMultiParent /\ rpc = "build") => (ENABLED BuildRaises /\ ~ENABLED BuildReturn)
    /\ (SomeMultiParent /\ rpc = "raised" /\ AllParentsFetched /\ Range(leaves) \subseteq resolved)
            => rerror = "multi_parent"
    /\ rerror = "multi_parent" =>
            /\ SomeMultiParent
            /\ AllParentsFetched
            /\ paths = <<>>
    /\ (rpc = "loop" /\ Unresolved # {}) => rerror # "multi_parent"

\* C10 witness: the leaf has one parent, its parent has two, both of them were
\* fetched in a second round, and path construction raised
C10_Witness ==
    /\ rpc = "raised"
    /\ rerror = "multi_parent"
    /\ Len(leaves) = 1
    /\ Len(drive[leaves[1]].parents) = 1
    /\ Len(drive[drive[leaves[1]].parents[1]].parents) = 2
    /\ Len(rounds) = 2
    /\ AllParentsFetched

\* the path runs from the parent of the resource up to a resource with no
\* parent, over resources of the remote hierarchy, leaving none out
CompletePath(rp) ==
    LET chain == <<rp.resource>> \o rp.path IN
    /\ \A i \in 1..(Len(chain) - 1) : drive[chain[i]].parents = <<chain[i + 1]>>
    /\ drive[chain[Len(chain)]].parents = <<>>

\* C11: resolve_paths never returns a truncated path: every returned path
\* holds every ancestor of its leaf up to a resource with no parent, and a
\* bulk fetch that does not deliver every referenced id (a 404 for one of
\* them) raises instead of going on without the ancestor
C11_NoTruncatedPath ==
    /\ rpc \in {"returned", "rendered"} =>
            /\ Len(paths) = Len(leaves)
            /\ \A k \in 1..Len(paths) :
                    /\ paths[k].resource = leaves[k]
                    /\ CompletePath(paths[k])
    /\ rpc # "raised" => \A i \in 1..Len(rounds) : rounds[i] \subseteq resolved
    /\ OnNotFound = FAIL
    /\ rerror # "key_error"

\* C11 witness: the parent of a leaf was fetched, the fetch of the grandparent
\* met a 404, and the call raised without returning a path
C11_Witness ==
    /\ rpc = "raised"
    /\ rerror = "http_404"
    /\ Len(rounds) = 2
    /\ rounds[1] \subseteq resolved
    /\ ~(rounds[2] \subseteq resolved)
    /\ paths = <<>>

\* the greatest number of ancestors of any leaf
MaxAncestors ==
    LET n(k) == Cardinality(Ancestry(leaves[k]) \ {leaves[k]})
    IN  CHOOSE d \in 0..MaxNodes :
            /\ \A k \in 1..Len(leaves) : n(k) <= d
            /\ \E k \in 1..Len(leaves) : n(k) = d

\* the parent ids that resources of the table refer to and the table lacks
Referenced ==
    {p \in Ids : \E id \in resolved : \E k \in 1..Len(drive[id].parents) :
                    drive[id].parents[k] = p} \ resolved

\* no bulk fetch has failed so far
EveryFetchSucceeded == rerror \notin {"http_404", "retries_exhausted"}

\* C29: the resolve loop terminates; while every fetch succeeds it makes at
\* most d bulk fetches, d the greatest number of ancestors of any leaf, however
\* many leaves there are; each fetch asks for every parent id that is referred
\* to and not yet resolved, and no id is asked for in two fetches
C29_ResolveLoopBounded ==
    /\ (rpc = "loop") ~> (rpc \in {"build", "raised"})
    /\ [](EveryFetchSucceeded =>
            /\ Len(rounds) <= MaxAncestors
            /\ \A i, j \in 1..Len(rounds) : i # j => rounds[i] \cap rounds[j] = {})
    /\ [][rounds' # rounds =>
            /\ Referenced # {}
            /\ rounds' = Append(rounds, Referenced)]_vars

\* C29 witness: a leaf with three ancestors in a chain was resolved in three
\* bulk fetches of one id each
C29_Witness ==
    /\ rpc = "build"
    /\ EveryFetchSucceeded
    /\ MaxAncestors = 3
    /\ Len(rounds) = 3
    /\ \A i \in 1..3 : Cardinality(rounds[i]) = 1

-----------------------------------------------------------------------------
(* dedup_apply, rank and compute_duplicates *)

\* str.startswith
startswith(str, prefix) ==
    /\ Len(prefix) <= Len(str)
    /\ SubSeq(str, 1, Len(prefix)) = prefix

\* str.endswith
endswith(str, suffix) ==
    /\ Len(suffix) <= Len(str)
    /\ SubSeq(str, Len(str) - Len(suffix) + 1, Len(str)) = suffix

\* str.strip(): leading and trailing blanks removed
RECURSIVE strip(_)
strip(str) ==
    IF str = <<>> THEN str
    ELSE IF Head(str) = " " THEN strip(Tail(str))
    ELSE IF str[Len(str)] = " " THEN strip(SubSeq(str, 1, Len(str) - 1))
    ELSE str

\* str.split(','): the pieces between commas, empty pieces included
RECURSIVE split(_)
split(str) ==
    IF \A i \in 1..Len(str) : str[i] # ","
    THEN <<str>>
    ELSE LET i == CHOOSE k \in 1..Len(str) :
                    str[k] = "," /\ \A j \in 1..(k - 1) : str[j] # ","
         IN  <<SubSeq(str, 1, i - 1)>> \o split(SubSeq(str, i + 1, Len(str)))

\* the two list comprehensions of dedup_apply: strip, then add the slash
Prefixes(option) ==
    LET stripped == [i \in 1..Len(split(option)) |-> strip(split(option)[i])]
    IN  [i \in 1..Len(stripped) |->
            IF endswith(stripped[i], <<"/">>) THEN stripped[i]
            ELSE stripped[i] \o <<"/">>]

\* the rendered paths an entry may have: str(paths[entry])
EntryPaths ==
    { <<"/", "N", "/", "x">>, <<"/", "N", "O", "/", "x">>, <<"/", "O", "/", "x">> }

Md5s == {"h1", "h2"}

\* the snapshot entries: folders, and files with a checksum and a path
EntryShapes ==
    {[kind |-> "folder", md5 |-> "none", path |-> <<"/", "N">>]} \cup
    {[kind |-> "file", md5 |-> h, path |-> p] : h \in Md5s, p \in EntryPaths}

\* the snapshots: entries have distinct ids, an entry's id is its position
Snapshots ==
    UNION {[1..n -> EntryShapes] : n \in 1..MaxEntries}

\* the --prefixes option strings
PrefixOptions ==
    { <<"/", "N", ",", "/", "O">>,
      <<"/", "O", "/", ",", " ", "/", "N">>,
      <<"/", "O", ",", "/", ",", "/", "N">> }

DedupInit ==
    /\ snapshot \in Snapshots
    /\ dargs \in [prefixes : PrefixOptions, dry_run : BOOLEAN]
    /\ duplicates = <<>>
    /\ prefixes = <<>>
    /\ group = 0
    /\ queue = <<>>
    /\ deleted = <<>>
    /\ ddpc = "init"
    /\ dderror = "none"
    /\ TableIdle /\ DelegateIdle /\ RunnerIdle /\ ResolverIdle /\ SyncIdle /\ SharedIdle

\* the keys of by_md5 in insertion order: the checksums of the file entries,
\* each at its first occurrence
Keys ==
    LET files == SelectSeq([i \in 1..Len(snapshot) |-> i],
                           LAMBDA i: snapshot[i].kind = "file")
        first == SelectSeq(files,
                           LAMBDA i: \A j \in 1..(i - 1) :
                                ~(snapshot[j].kind = "file" /\ snapshot[j].md5 = snapshot[i].md5))
    IN  [k \in 1..Len(first) |-> snapshot[first[k]].md5]

\* by_md5[md5]: the file entries with the checksum, in entry order
by_md5(md5) ==
    SelectSeq([i \in 1..Len(snapshot) |-> i],
              LAMBDA i: snapshot[i].kind = "file" /\ snapshot[i].md5 = md5)

\* compute_duplicates: the groups with more than one member, in dict order
compute_duplicates ==
    LET dups == SelectSeq(Keys, LAMBDA md5: Len(by_md5(md5)) > 1)
    IN  [k \in 1..Len(dups) |-> [md5 |-> dups[k], entries |-> by_md5(dups[k])]]

\* the head of dedup_apply: duplicates and paths are computed, the prefixes
\* are normalised and the runner is created; resolve_paths may raise
DedupBegin ==
    /\ ddpc = "init"
    /\ \/ /\ duplicates' = compute_duplicates
          /\ prefixes' = Prefixes(dargs.prefixes)
          /\ ddpc' = "ranking"
          /\ UNCHANGED dderror
       \/ /\ compute_duplicates # <<>>
          /\ ddpc' = "aborted"
          /\ dderror' = "resolve_paths"
          /\ UNCHANGED <<duplicates, prefixes>>
    /\ UNCHANGED <<snapshot, dargs, group, queue, deleted>>
    /\ UNCHANGED <<tableVars, delegateVars, runnerVars, resolverVars, syncVars, sharedVars>>

\* mutant: a path that no prefix covers is ranked after every prefix
rank_unmatched_last(prefix_preferences, path, i) ==
    IF i > Len(prefix_preferences) THEN i - 1
    ELSE LET hit == {k \in i..Len(prefix_preferences) :
                        startswith(path, prefix_preferences[k])}
         IN  IF hit = {} THEN Len(prefix_preferences)
             ELSE (CHOOSE k \in hit : \A j \in hit : k <= j) - 1

\* the inner loop of rank for one path, from the i-th prefix on: the index
\* (from 0) of the first prefix the path starts with, or -1 when the loop
\* runs out and the exception is raised
RECURSIVE rank(_, _, _)
rank(prefix_preferences, path, i) ==
    IF i > Len(prefix_preferences) THEN -1
    ELSE IF startswith(path, prefix_preferences[i]) THEN i - 1
    ELSE rank(prefix_preferences, path, i + 1)

\* list(zip(entries, list(rank(prefixes, [paths[entry] for entry in entries]))))
Preferences(entries) ==
    [k \in 1..Len(entries) |->
        <<entries[k], rank(prefixes, snapshot[entries[k]].path, 1)>>]

\* mutant: among members of equal rank the later one comes first
Before_last_first(pairs, q, p) ==
    \/ pairs[q][2] < pairs[p][2]
    \/ pairs[q][2] = pairs[p][2] /\ q > p

\* the order of a stable sort by rank: smaller rank first, and among equal
\* ranks the member that comes first in the list
Before(pairs, q, p) ==
    \/ pairs[q][2] < pairs[p][2]
    \/ pairs[q][2] = pairs[p][2] /\ q < p

\* sorted(preferences, key=lambda x: x[1])
sorted(pairs) ==
    [k \in 1..Len(pairs) |->
        pairs[CHOOSE p \in 1..Len(pairs) :
                Cardinality({q \in 1..Len(pairs) : Before(pairs, q, p)}) = k - 1]]

\* mutant: the least preferred member is the one left out
AfterFirst_but_last(s) == SubSeq(s, 1, Len(s) - 1)

\* s[1:]
AfterFirst(s) == Tail(s)

\* one round of the queueing loop: the group is ranked and every member but
\* the first of the sorted list is queued, or rank raises
QueueGroup ==
    /\ ddpc = "ranking"
    /\ group < Len(duplicates)
    /\ LET preferences == Preferences(duplicates[group + 1].entries)
           unmatched == \E k \in 1..Len(preferences) : preferences[k][2] = -1
           dropped == AfterFirst(sorted(preferences))
       IN  IF unmatched
           THEN /\ ddpc' = "aborted"
                /\ dderror' = "unmatched_prefix"
                /\ UNCHANGED <<group, queue>>
           ELSE /\ queue' = queue \o [k \in 1..Len(dropped) |-> dropped[k][1]]
                /\ group' = group + 1
                /\ UNCHANGED <<ddpc, dderror>>
    /\ UNCHANGED <<snapshot, dargs, duplicates, prefixes, deleted>>
    /\ UNCHANGED <<tableVars, delegateVars, runnerVars, resolverVars, syncVars, sharedVars>>

\* mutant: the queued deletions are run in a dry run too
RunDeletions_in_dry_run ==
    /\ ddpc = "ranking"
    /\ group = Len(duplicates)
    /\ deleted' = queue
    /\ \/ /\ ddpc' = "done"
          /\ UNCHANGED dderror
       \/ /\ queue # <<>>
          /\ ddpc' = "aborted"
          /\ dderror' = "runner"
    /\ UNCHANGED <<snapshot, dargs, duplicates, prefixes, group, queue>>
    /\ UNCHANGED <<tableVars, delegateVars, runnerVars, resolverVars, syncVars, sharedVars>>

\* if not args.dry_run: the queued requests go to the remote in a batch; the
\* runner returns or, when some deletion meets an unrecoverable error, raises
RunDeletions ==
    /\ ddpc = "ranking"
    /\ group = Len(duplicates)
    /\ ~dargs.dry_run
    /\ deleted' = queue
    /\ \/ /\ ddpc' = "done"
          /\ UNCHANGED dderror
       \/ /\ queue # <<>>
          /\ ddpc' = "aborted"
          /\ dderror' = "runner"
    /\ UNCHANGED <<snapshot, dargs, duplicates, prefixes, group, queue>>
    /\ UNCHANGED <<tableVars, delegateVars, runnerVars, resolverVars, syncVars, sharedVars>>

\* else: 'Dry run. No changes applied.'
DryRun ==
    /\ ddpc = "ranking"
    /\ group = Len(duplicates)
    /\ dargs.dry_run
    /\ ddpc' = "done"
    /\ UNCHANGED <<snapshot, dargs, duplicates, prefixes, group, queue, deleted, dderror>>
    /\ UNCHANGED <<tableVars, delegateVars, runnerVars, resolverVars, syncVars, sharedVars>>

DedupNext ==
    \/ DedupBegin
    \/ QueueGroup
    \/ RunDeletions
    \/ DryRun

SpecDedup == DedupInit /\ [][DedupNext]_vars

-----------------------------------------------------------------------------
(* Claims about dedup_apply *)

\* the files of the snapshot that share a checksum
GroupOf(md5) ==
    {i \in 1..Len(snapshot) : snapshot[i].kind = "file" /\ snapshot[i].md5 = md5}

\* a member's rank: the index of the first prefix of the preference list that
\* its path starts with (-1: no prefix covers the path)
RankOf(id) ==
    LET hit == {i \in 1..Len(prefixes) : startswith(snapshot[id].path, prefixes[i])}
    IN  IF hit = {} THEN -1 ELSE (CHOOSE i \in hit : \A j \in hit : i <= j) - 1

\* number of times an id is queued
Queued(id) == Cardinality({k \in 1..Len(queue) : queue[k] = id})

\* dedup_apply has computed the duplicates and their paths
Ranking == ddpc \in {"ranking", "done", "aborted"} /\ dderror # "resolve_paths"

\* C12: for every duplicate group exactly one member is kept and it has the
\* minimal rank of the group; every other member is queued for deletion once
\* and the kept member is never queued (nor deleted)
C12_KeepsMostPreferred ==
    Ranking =>
        /\ {duplicates[k].md5 : k \in 1..Len(duplicates)} =
                {h \in Md5s : Cardinality(GroupOf(h)) > 1}
        /\ ddpc = "done" => group = Len(duplicates)
        /\ \A k \in 1..group :
                LET members == GroupOf(duplicates[k].md5)
                    kept == members \ Range(queue)
                IN  /\ Cardinality(kept) = 1
                    /\ \A id \in kept : \A m \in members : RankOf(id) <= RankOf(m)
                    /\ \A m \in members \ kept : Queued(m) = 1
                    /\ kept \cap Range(deleted) = {}
        /\ Range(queue) \subseteq UNION {GroupOf(duplicates[k].md5) : k \in 1..group}
        /\ Range(deleted) \subseteq Range(queue)

\* C12 witness: a group of three members was ranked, its kept member is not
\* the first of the group in entry order, and the deletions were run
C12_Witness ==
    /\ ddpc = "done"
    /\ ~dargs.dry_run
    /\ \E k \in 1..Len(duplicates) :
            LET members == GroupOf(duplicates[k].md5)
            IN  /\ Cardinality(members) = 3
                /\ \E id \in members \ Range(queue) : \E m \in members : m < id
                /\ members \cap Range(deleted) # {}

\* some member of some duplicate group has a path no prefix covers
SomeUnmatched ==
    \E h \in Md5s :
        /\ Cardinality(GroupOf(h)) > 1
        /\ \E id \in GroupOf(h) : RankOf(id) = -1

Tied(members) == {m \in members : \A o \in members : RankOf(m) <= RankOf(o)}

\* C30: when several members of a duplicate group share the minimal rank, the
\* one that comes first in the snapshot's entry order is kept and the others
\* are queued for deletion
C30_TieKeepsFirstEntry ==
    Ranking =>
        \A k \in 1..group :
            LET members == GroupOf(duplicates[k].md5)
                tied == Tied(members)
                first == CHOOSE m \in tied : \A o \in tied : m <= o
            IN  /\ first \notin Range(queue)
                /\ tied \ {first} \subseteq Range(queue)
                /\ members \ Range(queue) = {first}

\* C30 witness: in a group of three the second and third entries share the
\* minimal rank and the first ranks after them; the second was kept, the
\* third and the first were deleted
C30_Witness ==
    /\ ddpc = "done"
    /\ ~dargs.dry_run
    /\ \E k \in 1..Len(duplicates) :
            LET members == GroupOf(duplicates[k].md5)
                tied == Tied(members)
            IN  /\ Cardinality(members) = 3
                /\ Cardinality(tied) = 2
                /\ \E m \in members \ tied : \A t \in tied : m < t
                /\ \E t \in tied : t \notin Range(queue) /\ (tied \ {t}) \subseteq Range(deleted)

-----------------------------------------------------------------------------
(* sync, resume_sync and _sync, with SyncState's store, read and clear *)

Hashes == <<"h1", "h2", "h3">>

\* LocalFile; a file's path is its position in the listing of the local folder
LocalFile(path, mime_type, md5_checksum) ==
    [path |-> path, mime_type |-> mime_type, md5_checksum |-> md5_checksum]

\* what a local file may be: a picture with one of two contents, or a text
LocalShapes ==
    { << <<"i", "m", "a", "g", "e", "/", "p", "n", "g">>, "h1" >>,
      << <<"i", "m", "a", "g", "e", "/", "p", "n", "g">>, "h2" >>,
      << <<"t", "e", "x", "t", "/", "p", "l", "a", "i", "n">>, "h3" >> }

\* the local folders: up to MaxLocal files
LocalFolders ==
    {[i \in 1..Len(f) |-> LocalFile(i, f[i][1], f[i][2])] :
        f \in UNION {[1..n -> LocalShapes] : n \in 0..MaxLocal}}

\* snapshot entries as far as the diff reads them: DriveFolder or DriveFile,
\* and the file's md5Checksum
FolderEntry == [kind |-> "folder", md5 |-> "none"]
FileEntry(md5) == [kind |-> "file", md5 |-> md5]

\* mutant: the listing of the target folder shows no file
Listing_no_files(md5s) == <<FolderEntry>>

\* snapshot(service, [folder]) of a folder that holds a subfolder and files
\* with these checksums
Listing(md5s) ==
    LET present == SelectSeq(Hashes, LAMBDA h: h \in md5s)
    IN  <<FolderEntry>> \o [k \in 1..Len(present) |-> FileEntry(present[k])]

\* mutant: the other snapshot's entries are dropped
merge_self_only(self, other) == self

\* Snapshot.merge
merge(self, other) == self \o other

\* SyncStateSchema.serialize_args: func is popped from the namespace's own
\* dict, which the copied state shares with the state
popped(args) == [args EXCEPT !.func = "popped"]

\* PolyResourceSchema dumps an entry under the schema of its type: a folder
\* goes without checksum, a file with its md5Checksum
dump_entry(entry) ==
    IF entry.kind = "folder"
    THEN [type |-> "folder", md5Checksum |-> "absent"]
    ELSE [type |-> "file", md5Checksum |-> entry.md5]

\* mutant: every stored entry is loaded as a folder
load_entry_as_folder(item) == FolderEntry

\* PolyResourceSchema loads an entry with the schema its type names:
\* make_folder or make_file
load_entry(item) ==
    IF item.type = "folder" THEN FolderEntry ELSE FileEntry(item.md5Checksum)

\* SyncStateSchema().dump: the stored fields; args goes without func
dump(st) ==
    [name |-> st.name,
     args |-> [dry_run |-> st.args.dry_run,
               allow_duplicates |-> st.args.allow_duplicates,
               include_pictures_only |-> st.args.include_pictures_only],
     snapshot |-> [k \in 1..Len(st.snapshot) |-> dump_entry(st.snapshot[k])],
     local_files |-> st.local_files,
     timestamp |-> st.timestamp,
     stored |-> st.stored]

\* SyncState.read: SyncStateSchema.load and make_sync_state
read(stored) ==
    [name |-> stored.name,
     args |-> [dry_run |-> stored.args.dry_run,
               allow_duplicates |-> stored.args.allow_duplicates,
               include_pictures_only |-> stored.args.include_pictures_only,
               func |-> "popped"],
     snapshot |-> [k \in 1..Len(stored.snapshot) |-> load_entry(stored.snapshot[k])],
     local_files |-> stored.local_files,
     timestamp |-> stored.timestamp,
     stored |-> stored.stored]

\* checkpoints on disk are a sequence indexed by name; an absent name holds this
Absent == dump(NoState)

OnDisk == {n \in 1..Len(checkpoints) : checkpoints[n] # Absent}

\* a checkpoint that an earlier sync of the folder, then empty, has left in the
\* working directory; it is older than any checkpoint written from now on
OldCheckpoint ==
    dump([name |-> MaxRuns, args |-> popped(sargs), snapshot |-> exclusions,
          local_files |-> <<>>, timestamp |-> 0, stored |-> TRUE])

SyncInit ==
    /\ localFiles \in LocalFolders
    /\ exclusions \in {<<>>, <<FolderEntry, FileEntry("h2")>>}
    /\ target \in {{}, {"h1"}}
    /\ sargs \in [dry_run : BOOLEAN, allow_duplicates : BOOLEAN,
                  include_pictures_only : BOOLEAN, func : {"sync"}]
    /\ checkpoints \in {[n \in 1..MaxRuns |-> Absent],
                        [n \in 1..MaxRuns |-> IF n = MaxRuns THEN OldCheckpoint ELSE Absent]}
    /\ state = NoState
    /\ mode = "none"
    /\ srequests = <<>>
    /\ sdone = 0
    /\ uploads = [p \in 1..Len(localFiles) |-> 0]
    /\ remoteUsed = {}
    /\ liveAtDiff = {}
    /\ runs = 0
    /\ spc = "ready"
    /\ serror = "none"
    /\ TableIdle /\ DelegateIdle /\ RunnerIdle /\ ResolverIdle /\ DedupIdle /\ SharedIdle

\* no command is running
Between == spc \in {"ready", "done", "failed", "exited"}

MEDIA_MIMES ==
    { <<"i", "m", "a", "g", "e">>, <<"v", "i", "d", "e", "o">>, <<"a", "u", "d", "i", "o">> }

\* _mime_allow
mime_allow(local_file, pics_only) ==
    IF ~pics_only THEN TRUE
    ELSE SubSeq(local_file.mime_type, 1, Min(5, Len(local_file.mime_type))) \in MEDIA_MIMES

\* the keys of _by_md5(local_files), in insertion order
Md5Keys(local_files) ==
    LET first == SelectSeq(local_files,
                           LAMBDA f: \A j \in 1..Len(local_files) :
                                (local_files[j].md5_checksum = f.md5_checksum
                                    => local_files[j].path >= f.path))
    IN  [k \in 1..Len(first) |-> first[k].md5_checksum]

\* _by_md5(local_files)[md5]
local_by_md5(local_files, md5) ==
    SelectSeq(local_files, LAMBDA f: f.md5_checksum = md5)

\* _check_duplicates exits
HasDuplicates(local_files) ==
    \E k \in 1..Len(Md5Keys(local_files)) :
        Len(local_by_md5(local_files, Md5Keys(local_files)[k])) > 1

\* sync, the first command: _new_sync_state scans the local folder, leaves out what the MIME
\* filter rejects, exits on duplicates unless they are allowed, and builds a
\* SyncState that is not stored
SyncCommand ==
    /\ spc = "ready"
    /\ LET local == SelectSeq(localFiles,
                              LAMBDA f: mime_allow(f, sargs.include_pictures_only))
       IN  IF ~sargs.allow_duplicates /\ HasDuplicates(local)
           THEN /\ spc' = "exited"
                /\ state' = NoState
           ELSE /\ spc' = "created"
                /\ state' = [name |-> runs + 1, args |-> sargs, snapshot |-> exclusions,
                             local_files |-> local, timestamp |-> runs + 1,
                             stored |-> FALSE]
    /\ mode' = "sync"
    /\ runs' = runs + 1
    /\ srequests' = <<>>
    /\ sdone' = 0
    /\ serror' = "none"
    /\ remoteUsed' = {}
    /\ liveAtDiff' = {}
    /\ UNCHANGED <<localFiles, exclusions, target, sargs, checkpoints, uploads>>
    /\ UNCHANGED <<tableVars, delegateVars, runnerVars, resolverVars, dedupVars, sharedVars>>

\* mutant: the stored state with the least timestamp is resumed
Latest_oldest ==
    CHOOSE n \in OnDisk : \A m \in OnDisk : checkpoints[m].timestamp >= checkpoints[n].timestamp

\* _latest_sync_state: the stored state with the greatest timestamp
Latest ==
    CHOOSE n \in OnDisk : \A m \in OnDisk : checkpoints[m].timestamp <= checkpoints[n].timestamp

\* resume (without --clear): the latest checkpoint is read, or the command
\* exits when there is none
ResumeCommand ==
    /\ Between
    /\ runs < MaxRuns
    /\ IF OnDisk = {}
       THEN /\ spc' = "exited"
            /\ state' = NoState
       ELSE /\ spc' = "created"
            /\ state' = read(checkpoints[Latest])
    /\ mode' = "resume"
    /\ runs' = runs + 1
    /\ srequests' = <<>>
    /\ sdone' = 0
    /\ serror' = "none"
    /\ remoteUsed' = {}
    /\ liveAtDiff' = {}
    /\ UNCHANGED <<localFiles, exclusions, target, sargs, checkpoints, uploads>>
    /\ UNCHANGED <<tableVars, delegateVars, runnerVars, resolverVars, dedupVars, sharedVars>>

\* resume --clear: every checkpoint of the working directory is removed
ResumeClear ==
    /\ Between
    /\ runs < MaxRuns
    /\ OnDisk # {}
    /\ checkpoints' = [n \in 1..Len(checkpoints) |-> Absent]
    /\ mode' = "clear"
    /\ runs' = runs + 1
    /\ spc' = "done"
    /\ state' = NoState
    /\ srequests' = <<>>
    /\ sdone' = 0
    /\ serror' = "none"
    /\ remoteUsed' = {}
    /\ liveAtDiff' = {}
    /\ UNCHANGED <<localFiles, exclusions, target, sargs, uploads>>
    /\ UNCHANGED <<tableVars, delegateVars, runnerVars, resolverVars, dedupVars, sharedVars>>

\* mutant: no entry counts as a remote file
RemoteMd5s_no_files(entries) == {}

\* set(entry.md5Checksum for entry in entries if isinstance(entry, DriveFile))
RemoteMd5s(entries) ==
    {entries[k].md5 : k \in {j \in 1..Len(entries) : entries[j].kind = "file"}}

\* mutant: the last local file with the checksum is the one uploaded
FirstOf_last(local_files) == local_files[Len(local_files)]

\* local_files[0]
FirstOf(local_files) == local_files[1]

\* the head of _sync: the target folder is listed and merged into the state's
\* snapshot, the diff is computed and one upload per missing checksum is
\* queued, in the iteration order of the to_sync set; listing the target
\* folder may fail
Diff ==
    /\ spc = "created"
    /\ \/ LET merged == merge(state.snapshot, Listing(target))
              remote == RemoteMd5s(merged)
              to_sync == Range(Md5Keys(state.local_files)) \ remote
          IN  /\ state' = [state EXCEPT !.snapshot = merged]
              /\ remoteUsed' = remote
              /\ liveAtDiff' = target
              /\ \E order \in DistinctSeqs(to_sync, Cardinality(to_sync), Cardinality(to_sync)) :
                    srequests' = [k \in 1..Len(order) |->
                                    FirstOf(local_by_md5(state.local_files, order[k])).path]
              /\ spc' = "queued"
              /\ UNCHANGED serror
       \/ /\ spc' = "failed"
          /\ serror' = "remote_folder"
          /\ UNCHANGED <<state, remoteUsed, liveAtDiff, srequests>>
    /\ UNCHANGED <<localFiles, exclusions, target, sargs, checkpoints, mode, sdone,
                   uploads, runs>>
    /\ UNCHANGED <<tableVars, delegateVars, runnerVars, resolverVars, dedupVars, sharedVars>>

\* mutant: the state is never stored
NeedsStore_never(st) == FALSE

\* if not state.stored
NeedsStore(st) == ~st.stored

\* state.store() when the state is not stored yet: stored is set, func is
\* popped and the dump is written; a write that fails resets stored and raises
Persist ==
    /\ spc = "queued"
    /\ IF NeedsStore(state)
       THEN \/ /\ state' = [state EXCEPT !.stored = TRUE, !.args = popped(state.args)]
               /\ checkpoints' = [checkpoints EXCEPT ![state.name] = dump(state')]
               /\ spc' = "stored"
               /\ UNCHANGED serror
            \/ /\ state' = [state EXCEPT !.stored = FALSE, !.args = popped(state.args)]
               /\ spc' = "failed"
               /\ serror' = "store"
               /\ UNCHANGED checkpoints
       ELSE /\ spc' = "stored"
            /\ UNCHANGED <<state, checkpoints, serror>>
    /\ UNCHANGED <<localFiles, exclusions, target, sargs, mode, srequests, sdone, uploads,
                   remoteUsed, liveAtDiff, runs>>
    /\ UNCHANGED <<tableVars, delegateVars, runnerVars, resolverVars, dedupVars, sharedVars>>

\* if state.args.dry_run: return
DryRunReturn ==
    /\ spc = "stored"
    /\ state.args.dry_run
    /\ spc' = "done"
    /\ UNCHANGED <<localFiles, exclusions, target, sargs, checkpoints, state, mode, srequests,
                   sdone, uploads, remoteUsed, liveAtDiff, runs, serror>>
    /\ UNCHANGED <<tableVars, delegateVars, runnerVars, resolverVars, dedupVars, sharedVars>>

\* the local file a queued upload reads
FileAt(path) == state.local_files[CHOOSE k \in 1..Len(state.local_files) :
                                    state.local_files[k].path = path]

\* the runner executes the next queued upload and it succeeds: the file is
\* created in the target folder
UploadSucceeds ==
    /\ spc = "stored"
    /\ ~state.args.dry_run
    /\ sdone < Len(srequests)
    /\ LET file == FileAt(srequests[sdone + 1])
       IN  /\ target' = target \cup {file.md5_checksum}
           /\ uploads' = [uploads EXCEPT ![file.path] = @ + 1]
    /\ sdone' = sdone + 1
    /\ UNCHANGED <<localFiles, exclusions, sargs, checkpoints, state, mode, srequests,
                   remoteUsed, liveAtDiff, runs, spc, serror>>
    /\ UNCHANGED <<tableVars, delegateVars, runnerVars, resolverVars, dedupVars, sharedVars>>

\* the next queued upload meets an error whose policy is Skip: the runner drops
\* the request and goes on
UploadSkipped ==
    /\ spc = "stored"
    /\ ~state.args.dry_run
    /\ sdone < Len(srequests)
    /\ sdone' = sdone + 1
    /\ UNCHANGED <<localFiles, exclusions, target, sargs, checkpoints, state, mode, srequests,
                   uploads, remoteUsed, liveAtDiff, runs, spc, serror>>
    /\ UNCHANGED <<tableVars, delegateVars, runnerVars, resolverVars, dedupVars, sharedVars>>

\* mutant: the checkpoint is removed when the runner raises
AfterAbort_cleared(disk, name) == [disk EXCEPT ![name] = Absent]

\* the checkpoints on disk after the runner raised: _sync has no handler
AfterAbort(disk, name) == disk

\* the runner raises: unrecoverable error, Fail policy, retries exhausted or
\* time out; the exception leaves _sync
UploadAborts ==
    /\ spc = "stored"
    /\ ~state.args.dry_run
    /\ sdone < Len(srequests)
    /\ checkpoints' = AfterAbort(checkpoints, state.name)
    /\ spc' = "failed"
    /\ serror' = "runner"
    /\ UNCHANGED <<localFiles, exclusions, target, sargs, state, mode, srequests, sdone,
                   uploads, remoteUsed, liveAtDiff, runs>>
    /\ UNCHANGED <<tableVars, delegateVars, runnerVars, resolverVars, dedupVars, sharedVars>>

\* the runner returns with nothing pending; state.clear() removes the checkpoint
UploadsReturn ==
    /\ spc = "stored"
    /\ ~state.args.dry_run
    /\ sdone = Len(srequests)
    /\ checkpoints' = [checkpoints EXCEPT ![state.name] = Absent]
    /\ spc' = "done"
    /\ UNCHANGED <<localFiles, exclusions, target, sargs, state, mode, srequests, sdone,
                   uploads, remoteUsed, liveAtDiff, runs, serror>>
    /\ UNCHANGED <<tableVars, delegateVars, runnerVars, resolverVars, dedupVars, sharedVars>>

\* environment: between two commands a file is removed from the target folder
RemoteFileRemoved ==
    /\ Between
    /\ runs < MaxRuns
    /\ \E h \in target : target' = target \ {h}
    /\ UNCHANGED <<localFiles, exclusions, sargs, checkpoints, state, mode, srequests, sdone,
                   uploads, remoteUsed, liveAtDiff, runs, spc, serror>>
    /\ UNCHANGED <<tableVars, delegateVars, runnerVars, resolverVars, dedupVars, sharedVars>>

SyncNext ==
    \/ SyncCommand
    \/ ResumeCommand
    \/ ResumeClear
    \/ Diff
    \/ Persist
    \/ DryRunReturn
    \/ UploadSucceeds
    \/ UploadSkipped
    \/ UploadAborts
    \/ UploadsReturn
    \/ RemoteFileRemoved

SpecSync == SyncInit /\ [][SyncNext]_vars

-----------------------------------------------------------------------------
(* Claims about sync and resume *)

\* the running command has computed its diff and queued its uploads
Diffed ==
    /\ mode \in {"sync", "resume"}
    /\ \/ spc \in {"queued", "stored"}
       \/ spc = "done"
       \/ spc = "failed" /\ serror \in {"store", "runner"}

\* the content hashes of the local files of the state
LocalHashes ==
    {state.local_files[k].md5_checksum : k \in 1..Len(state.local_files)}

\* the content hashes of the file entries of a snapshot
FileHashes(entries) ==
    {e.md5 : e \in {x \in Range(entries) : x.kind = "file"}}

\* the content hashes for which an upload is queued
QueuedHashes ==
    {FileAt(srequests[k]).md5_checksum : k \in 1..Len(srequests)}

\* C14: the set of content hashes for which an upload is queued is exactly
\* localHashes - remoteHashes, remoteHashes being the hashes of the file entries
\* of the merged exclusion snapshot
C14_DiffExact ==
    Diffed => QueuedHashes = LocalHashes \ FileHashes(state.snapshot)

\* C14 witness: local {h1, h2, h3} and remote {h2} queue uploads for {h1, h3}
C14_Witness ==
    /\ spc = "queued"
    /\ LocalHashes = {"h1", "h2", "h3"}
    /\ FileHashes(state.snapshot) = {"h2"}
    /\ QueuedHashes = {"h1", "h3"}

\* every queued upload of the command has succeeded: its file is in the target
EveryUploadSucceeded ==
    /\ Diffed
    /\ spc = "done"
    /\ ~state.args.dry_run
    /\ \A k \in 1..Len(srequests) : uploads[srequests[k]] > 0
    /\ QueuedHashes \subseteq target

\* C15: after every queued upload has succeeded, the diff of the same local
\* files against the exclusion snapshot merged with the target folder, which
\* now holds the uploaded files, is empty
C15_DiffConverges ==
    EveryUploadSucceeded =>
        LocalHashes \ FileHashes(merge(state.snapshot, Listing(target))) = {}

\* C15 witness: two uploads were queued and both succeeded
C15_Witness ==
    /\ EveryUploadSucceeded
    /\ Len(srequests) = 2
    /\ Cardinality(LocalHashes) = 3

\* C16: for every content hash of the upload set exactly one upload is queued,
\* and it is for the first local file with that hash in the order of the local
\* file list
C16_OneUploadPerHash ==
    Diffed =>
        /\ Len(srequests) = Cardinality(LocalHashes \ FileHashes(state.snapshot))
        /\ \A h \in LocalHashes \ FileHashes(state.snapshot) :
                LET first == CHOOSE k \in 1..Len(state.local_files) :
                                /\ state.local_files[k].md5_checksum = h
                                /\ \A j \in 1..(k - 1) :
                                        state.local_files[j].md5_checksum # h
                IN  /\ Cardinality({k \in 1..Len(srequests) :
                                        FileAt(srequests[k]).md5_checksum = h}) = 1
                    /\ \E k \in 1..Len(srequests) :
                            srequests[k] = state.local_files[first].path

\* C16 witness: two local files share a hash that is missing remotely, a file
\* with another hash lies before them, and one upload is queued for the hash
C16_Witness ==
    /\ spc = "queued"
    /\ \E i, j \in 1..Len(state.local_files) :
            /\ 1 < i /\ i < j
            /\ state.local_files[i].md5_checksum = state.local_files[j].md5_checksum
            /\ state.local_files[1].md5_checksum # state.local_files[i].md5_checksum
            /\ state.local_files[i].path \in Range(srequests)
            /\ state.local_files[j].path \notin Range(srequests)

\* the checkpoint of the running command is on durable storage
Persisted ==
    /\ state.name \in OnDisk
    /\ state.stored
    /\ checkpoints[state.name].local_files = state.local_files

\* C17: no upload is executed while the checkpoint is unpersisted: at every
\* upload the checkpoint has been written, or was loaded, and is on disk
C17_PersistedBeforeUpload ==
    [][uploads' # uploads => Persisted]_vars

\* C17 witness: uploads were executed by a sync and by the resume after it
C17_Witness ==
    /\ mode = "resume"
    /\ \E p, q \in 1..Len(localFiles) : p # q /\ uploads[p] > 0 /\ uploads[q] > 0
    /\ sdone > 0

\* C18: _sync deletes its checkpoint only after the runner has returned with
\* nothing pending; when the runner aborts the checkpoint stays on disk and a
\* resume reads it back
C18_ClearedOnlyOnSuccess ==
    /\ [][(OnDisk' # OnDisk /\ OnDisk' \subseteq OnDisk /\ mode' # "clear") =>
            /\ spc = "stored"
            /\ sdone = Len(srequests)
            /\ spc' = "done"
            /\ OnDisk' = OnDisk \ {state.name}]_vars
    /\ []((spc = "failed" /\ serror = "runner") =>
            /\ Persisted
            /\ Latest = state.name
            /\ read(checkpoints[state.name]).local_files = state.local_files)

\* C18 witness: the runner aborted after one upload and the checkpoint is
\* still on disk
C18_Witness ==
    /\ spc = "failed"
    /\ serror = "runner"
    /\ sdone = 1
    /\ Len(srequests) = 2
    /\ state.name \in OnDisk

\* C19: after a dry-run sync has ended, no checkpoint created by that run is on
\* durable storage
C19_DryRunNeverPersists ==
    (mode = "sync" /\ spc = "done" /\ state.args.dry_run) => state.name \notin OnDisk

\* C20: on resume, the remote hash set of the diff is the hashes of the
\* cacheable exclusions united with the hashes of the target folder's contents
\* as listed at resume time
C20_ResumeExclusions ==
    (mode = "resume" /\ Diffed) =>
        remoteUsed = FileHashes(exclusions) \cup liveAtDiff

\* C21: with several checkpoints in the working directory, resume acts on the
\* one with the greatest timestamp only; every other checkpoint stays on disk
\* unchanged through the resumed sync, whether it succeeds or fails
C21_ResumesLatestOnly ==
    /\ [][(mode' = "resume" /\ spc' = "created") =>
            /\ state'.name \in OnDisk
            /\ state' = read(checkpoints[state'.name])
            /\ \A n \in OnDisk \ {state'.name} :
                    checkpoints[n].timestamp < state'.timestamp]_vars
    /\ [][mode' = "resume" =>
            \A n \in OnDisk \ {state'.name} : checkpoints'[n] = checkpoints[n]]_vars

\* C21 witness: two checkpoints were on disk, the later one was resumed, its
\* uploads succeeded and it was cleared, and the earlier one is still there
C21_Witness ==
    /\ mode = "resume"
    /\ spc = "done"
    /\ sdone > 0
    /\ state.name \notin OnDisk
    /\ \E n \in OnDisk : checkpoints[n].timestamp < state.timestamp

\* the step writes the checkpoint named n
Written(n) ==
    /\ n \in 1..Len(checkpoints)
    /\ checkpoints'[n] # checkpoints[n]
    /\ checkpoints'[n] # Absent

UploadedHashes ==
    {localFiles[p].md5_checksum : p \in {q \in 1..Len(localFiles) : uploads[q] > 0}}

\* C33: across a sync that fails part-way and later resumes, a content hash
\* that was uploaded is not uploaded again by a command whose listing of the
\* target folder shows it; a resumed sync queues uploads only for hashes
\* absent from the target folder when it listed it, and its local files are
\* those of the checkpoint, read once and not scanned again
C33_NoUploadTwice ==
    /\ [][uploads' # uploads =>
            LET h == FileAt(srequests[sdone + 1]).md5_checksum
            IN  (h \in UploadedHashes => h \notin liveAtDiff)]_vars
    /\ []((mode = "resume" /\ Diffed) =>
            /\ QueuedHashes \cap liveAtDiff = {}
            /\ Range(srequests) \subseteq
                    {state.local_files[k].path : k \in 1..Len(state.local_files)})
    /\ [][(mode' = "resume" /\ spc' = "created") =>
            state'.local_files = checkpoints[state'.name].local_files]_vars
    /\ [][(mode = "resume" /\ mode' = "resume" /\ spc # "ready" /\ ~Between) =>
            state'.local_files = state.local_files]_vars

\* C33 witness: a sync uploaded one file and failed; the resume listed the
\* target folder with that file in it, queued the one upload left, made it
\* and finished: two hashes uploaded, each once
C33_Witness ==
    /\ mode = "resume"
    /\ spc = "done"
    /\ ~state.args.dry_run
    /\ Len(srequests) = 1
    /\ Cardinality(UploadedHashes) = 2
    /\ \A p \in 1..Len(localFiles) : uploads[p] <= 1
    /\ \E p \in 1..Len(localFiles) :
            /\ uploads[p] = 1
            /\ p # srequests[1]
            /\ localFiles[p].md5_checksum \in liveAtDiff

-----------------------------------------------------------------------------
(* The shared default table and the copy multiget_gd patches *)

\* DEFAULT_POLICIES.policies: the addresses of the module's policy objects
DefaultTable == [k \in 1..Len(DEFAULT_POLICIES) |-> k]

\* the policies a table of addresses stands for
Deref(table) == [k \in 1..Len(table) |-> objects[table[k]]]

\* mutant: the copy is shallow, its policies are the objects of the original
deepcopy_shallow(heap, table) == [heap |-> heap, table |-> table]

\* copy.deepcopy of a table: every policy is copied to a new object
deepcopy(heap, table) ==
    [heap |-> heap \o [k \in 1..Len(table) |-> heap[table[k]]],
     table |-> [k \in 1..Len(table) |-> Len(heap) + k]]

\* the errors a request of either runner may meet
SharedErrors ==
    {HttpError("404", "none"), HttpError("500", "none"),
     HttpError("403", "none"), HttpError("403", "rateLimitExceeded")}

\* the module is imported: DEFAULT_POLICIES is built
SharedInit ==
    /\ objects = DEFAULT_POLICIES
    /\ mgTable = <<>>
    /\ mpc = "idle"
    /\ mlog = <<>>
    /\ TableIdle /\ DelegateIdle /\ RunnerIdle /\ ResolverIdle /\ DedupIdle /\ SyncIdle

\* multiget_gd: fail_on_404 = copy.deepcopy(DEFAULT_POLICIES)
MultigetCopy ==
    /\ mpc = "idle"
    /\ Len(mlog) < MaxCalls
    /\ LET copy == deepcopy(objects, DefaultTable)
       IN  /\ objects' = copy.heap
           /\ mgTable' = copy.table
    /\ mpc' = "copied"
    /\ UNCHANGED mlog
    /\ UNCHANGED <<tableVars, delegateVars, runnerVars, resolverVars, dedupVars, syncVars>>

\* multiget_gd: fail_on_404.policy_for('404').action = HttpErrorPolicy.FAIL
MultigetPatch ==
    /\ mpc = "copied"
    /\ LET i == policy_for(Deref(mgTable), "404")
       IN  objects' = [objects EXCEPT ![mgTable[i]].action = FAIL]
    /\ mpc' = "patched"
    /\ UNCHANGED <<mgTable, mlog>>
    /\ UNCHANGED <<tableVars, delegateVars, runnerVars, resolverVars, dedupVars, syncVars>>

\* what a runner holding the table does with an error: the action of the
\* matching policy (-1: none matches)
ActionOn(table, error) == matching(Deref(table), error).policy.action

\* multiget_gd: the runner built with fail_on_404 handles an error of a
\* request, and multiget_gd is over
MultigetRun ==
    /\ mpc = "patched"
    /\ \E error \in SharedErrors :
        mlog' = Append(mlog, [runner |-> "multiget_gd", error |-> error,
                              action |-> ActionOn(mgTable, error)])
    /\ mgTable' = <<>>
    /\ mpc' = "idle"
    /\ UNCHANGED objects
    /\ UNCHANGED <<tableVars, delegateVars, runnerVars, resolverVars, dedupVars, syncVars>>

\* ErrorHandlingRunner(service, ...) without recovery_policy, as dedup_apply
\* and _sync build it: the runner holds DEFAULT_POLICIES itself and handles an
\* error of a request
DefaultRun ==
    /\ mpc = "idle"
    /\ Len(mlog) < MaxCalls
    /\ \E error \in SharedErrors :
        mlog' = Append(mlog, [runner |-> "default", error |-> error,
                              action |-> ActionOn(DefaultTable, error)])
    /\ UNCHANGED <<objects, mgTable, mpc>>
    /\ UNCHANGED <<tableVars, delegateVars, runnerVars, resolverVars, dedupVars, syncVars>>

SharedNext ==
    \/ MultigetCopy
    \/ MultigetPatch
    \/ MultigetRun
    \/ DefaultRun

SpecShared == SharedInit /\ [][SharedNext]_vars

-----------------------------------------------------------------------------
(* Claims about the shared default table *)

\* C31: the shared default table is never mutated: whatever calls of
\* multiget_gd were made, whose table fails on 404, the default table's policy
\* for 404 is still Skip and a runner built with the default table skips a 404
C31_DefaultTableIntact ==
    /\ Deref(DefaultTable) = DEFAULT_POLICIES
    /\ Deref(DefaultTable)[policy_for(Deref(DefaultTable), "404")].action = SKIP
    /\ \A k \in 1..Len(mlog) :
        mlog[k].error.status = "404" =>
            mlog[k].action = IF mlog[k].runner = "default" THEN SKIP ELSE FAIL

\* C31 witness: two calls of multiget_gd, the first of which failed on a 404,
\* and then a runner with the default table that skipped a 404
C31_Witness ==
    /\ Len(mlog) = 3
    /\ mlog[1] = [runner |-> "multiget_gd", error |-> HttpError("404", "none"),
                  action |-> FAIL]
    /\ mlog[2].runner = "multiget_gd"
    /\ mlog[3] = [runner |-> "default", error |-> HttpError("404", "none"),
                  action |-> SKIP]

-----------------------------------------------------------------------------
(* The two commands that change the remote: one run of either *)

\* dedup_apply on any snapshot with --prefixes /O,/,/N, or sync given neither
\* an --exclude option nor the pictures-only filter; either with and without
\* --dry-run
CommandsInit ==
    \/ DedupInit /\ dargs.prefixes = <<"/", "O", ",", "/", ",", "/", "N">>
    \/ SyncInit /\ exclusions = <<>> /\ ~sargs.include_pictures_only

CommandsNext == DedupNext \/ SyncNext

SpecCommands == CommandsInit /\ [][CommandsNext]_vars

\* C34: in a dry run nothing that changes the remote is executed:
\* dedup_apply sends no delete request, whatever it queued, and _sync executes
\* no upload request, whatever it queued
C34_DryRunExecutesNothing ==
    /\ [][dargs.dry_run => deleted' = <<>>]_vars
    /\ [][state.args.dry_run =>
            /\ uploads' = uploads
            /\ sdone' = 0
            /\ target' \subseteq target
            /\ serror' # "runner"]_vars

\* C34 witness: a resumed dry run queued two uploads and ended with none of
\* them executed and the target folder as it was listed
C34_Witness ==
    /\ mode = "resume"
    /\ spc = "done"
    /\ state.args.dry_run
    /\ Len(srequests) = 2
    /\ sdone = 0
    /\ \A p \in 1..Len(localFiles) : uploads[p] = 0
    /\ target = liveAtDiff

====
